---- MODULE Spec2Model ----
(***************************************************************************)
(* Background task execution of parut: the task queue (task_queue.rs),     *)
(* the scheduler loop and its execution threads (TaskWorker), and the      *)
(* terminal-hosted process engine (ParuBackend::run_paru_in_terminal).     *)
(*                                                                         *)
(* Rust strings are TLA+ strings; a character is a string of length one,   *)
(* read with SubSeq.  Option<T> is a sequence of length at most one.       *)
(* Vec indices are 1-based here, and index 0 stands for "not found".       *)
(***************************************************************************)
EXTENDS Integers, Sequences, FiniteSets, TLC

\* ------------------------------------------------------------------ bounds
\* Number of ids the id counter may hand out in a run.
MaxTasks == 2
\* Number of append_output calls in the output-buffer specification.
MaxAppends == 53
\* Largest clock reading (seconds since the epoch).
MaxClock == 61
\* Number of request_cancel calls the interface issues in a run.
MaxCancelCalls == 1

\* ------------------------------------------------------- program constants
\* task_queue.rs:142  task_output_lines_limit.max(50)
OutputFloor == 50
\* task_queue.rs:434  max_parallel_tasks.max(1)
ParallelFloor == 1
\* task_queue.rs:379  minutes.saturating_mul(60)
SecondsPerMinute == 60

\* ----------------------------------------------------------------- Option
None == <<>>
Some(x) == <<x>>
is_some(o) == o # <<>>
unwrap(o) == o[1]

Max(a, b) == IF a >= b THEN a ELSE b
Min(a, b) == IF a <= b THEN a ELSE b
saturating_sub(a, b) == IF a >= b THEN a - b ELSE 0

\* ---------------------------------------------------------------- strings
Ch(s, i) == SubSeq(s, i, i)
Digits == {"0", "1", "2", "3", "4", "5", "6", "7", "8", "9"}
is_ascii_digit(c) == c \in Digits

\* str::find(char): index of the first occurrence, 0 when absent.
find_char(s, c) ==
    IF \E i \in 1..Len(s) : Ch(s, i) = c
    THEN CHOOSE i \in 1..Len(s) : Ch(s, i) = c /\ \A j \in 1..(i - 1) : Ch(s, j) # c
    ELSE 0

\* str::contains(&str)
contains(s, sub) ==
    \E i \in 1..(Len(s) - Len(sub) + 1) : SubSeq(s, i, i + Len(sub) - 1) = sub

UpperCase == <<"A", "B", "C", "D", "E", "F", "G", "H", "I", "J", "K", "L", "M",
               "N", "O", "P", "Q", "R", "S", "T", "U", "V", "W", "X", "Y", "Z">>
LowerCase == <<"a", "b", "c", "d", "e", "f", "g", "h", "i", "j", "k", "l", "m",
               "n", "o", "p", "q", "r", "s", "t", "u", "v", "w", "x", "y", "z">>

lower_char(c) ==
    IF \E k \in 1..26 : UpperCase[k] = c
    THEN LowerCase[CHOOSE k \in 1..26 : UpperCase[k] = c]
    ELSE c

\* str::to_lowercase (the lines of the model are ASCII): the characters
\* of s from index i on, each lowered.  The character and the next index
\* are bound as values before the recursive call.
RECURSIVE lowercase_from(_, _)
lowercase_from(s, i) ==
    IF i > Len(s) THEN ""
    ELSE CHOOSE lowered \in {lower_char(c) \o lowercase_from(s, j) :
                                 c \in {Ch(s, i)}, j \in {i + 1}} : TRUE

to_lowercase(s) == lowercase_from(s, 1)

\* [&str]::join(" ")
RECURSIVE join_space(_)
join_space(args) ==
    IF Len(args) = 0 THEN ""
    ELSE IF Len(args) = 1 THEN args[1]
    ELSE args[1] \o " " \o join_space(Tail(args))

\* ------------------------------------------------------------ f64 values
\* A finite f64 is the exact rational num/den in lowest terms with den > 0;
\* the two infinities and NaN are kept apart.
RECURSIVE Gcd(_, _)
Gcd(a, b) == IF b = 0 THEN a ELSE Gcd(b, a % b)
Abs(a) == IF a < 0 THEN -a ELSE a

F64(n, d) ==
    LET g == Gcd(Abs(n), Abs(d))
        s == IF d < 0 THEN -1 ELSE 1
    IN  [kind |-> "finite", num |-> (s * n) \div g, den |-> (s * d) \div g]
F64Inf(neg) == [kind |-> "inf", neg |-> neg]
F64NaN == [kind |-> "nan"]

\* f64 division (IEEE 754: x/0 is an infinity, 0/0 and inf/inf are NaN).
\* The sign of a zero is not tracked; a zero divisor counts as +0.
f64_div(a, b) ==
    IF a.kind = "nan" \/ b.kind = "nan" THEN F64NaN
    ELSE IF a.kind = "inf"
         THEN IF b.kind = "inf" THEN F64NaN
              ELSE F64Inf(a.neg # (b.num < 0))
    ELSE IF b.kind = "inf" THEN F64(0, 1)
    ELSE IF b.num = 0
         THEN IF a.num = 0 THEN F64NaN ELSE F64Inf(a.num < 0)
    ELSE F64(a.num * b.den, a.den * b.num)

RECURSIVE Pow10(_)
Pow10(k) == IF k = 0 THEN 1 ELSE 10 * Pow10(k - 1)

digit_value(c) == CHOOSE v \in 0..9 : Ch("0123456789", v + 1) = c

all_digits(s) == \A i \in 1..Len(s) : is_ascii_digit(Ch(s, i))

\* The number a string of decimal digits denotes ("" denotes 0).
RECURSIVE digits_value(_)
digits_value(s) ==
    IF Len(s) = 0 THEN 0
    ELSE 10 * digits_value(SubSeq(s, 1, Len(s) - 1)) + digit_value(Ch(s, Len(s)))

\* <f64 as FromStr>::from_str accepts [sign] (inf | infinity | nan | decimal),
\* where decimal is digits [. digits] [(e|E) [sign] digits] with at least
\* one digit in the mantissa.  The operators below take it apart in that
\* order; None stands for Err.
is_negative(s) == Len(s) > 0 /\ Ch(s, 1) = "-"
unsigned_part(s) ==
    IF Len(s) > 0 /\ Ch(s, 1) \in {"+", "-"} THEN SubSeq(s, 2, Len(s)) ELSE s

exp_pos(body) == find_char(to_lowercase(body), "e")
mantissa_of(body) ==
    IF exp_pos(body) = 0 THEN body ELSE SubSeq(body, 1, exp_pos(body) - 1)
exponent_of(body) ==
    IF exp_pos(body) = 0 THEN "" ELSE SubSeq(body, exp_pos(body) + 1, Len(body))

int_part(mant) ==
    IF find_char(mant, ".") = 0 THEN mant
    ELSE SubSeq(mant, 1, find_char(mant, ".") - 1)
frac_part(mant) ==
    IF find_char(mant, ".") = 0 THEN ""
    ELSE SubSeq(mant, find_char(mant, ".") + 1, Len(mant))

mantissa_ok(ipart, fpart) ==
    all_digits(ipart) /\ all_digits(fpart) /\ Len(ipart) + Len(fpart) > 0
exponent_ok(digits) == Len(digits) > 0 /\ all_digits(digits)

\* The value of ipart.fpart e(+|-)exp_digits, negated when neg.
f64_from_parts(neg, ipart, fpart, exp_neg, exp_digits) ==
    LET m == (IF neg THEN -1 ELSE 1) * digits_value(ipart \o fpart)
    IN  IF exp_neg
        THEN F64(m, Pow10(Len(fpart)) * Pow10(digits_value(exp_digits)))
        ELSE F64(m * Pow10(digits_value(exp_digits)), Pow10(Len(fpart)))

parse_decimal(neg, mant, has_exp, expo) ==
    IF ~mantissa_ok(int_part(mant), frac_part(mant)) THEN None
    ELSE IF has_exp /\ ~exponent_ok(unsigned_part(expo)) THEN None
    ELSE Some(f64_from_parts(neg, int_part(mant), frac_part(mant),
                             is_negative(expo), unsigned_part(expo)))

parse_unsigned_f64(neg, body) ==
    IF to_lowercase(body) \in {"inf", "infinity"} THEN Some(F64Inf(neg))
    ELSE IF to_lowercase(body) = "nan" THEN Some(F64NaN)
    ELSE parse_decimal(neg, mantissa_of(body), exp_pos(body) # 0, exponent_of(body))

parse_f64(s) == parse_unsigned_f64(is_negative(s), unsigned_part(s))

\* str::rfind(|c| !c.is_ascii_digit() && c != '.'): index of the last
\* character that is neither a digit nor a point, 0 when there is none.
is_non_numeric(c) == ~is_ascii_digit(c) /\ c # "."
rfind_non_numeric(s) ==
    IF \E i \in 1..Len(s) : is_non_numeric(Ch(s, i))
    THEN CHOOSE i \in 1..Len(s) :
             is_non_numeric(Ch(s, i)) /\ \A j \in (i + 1)..Len(s) : ~is_non_numeric(Ch(s, j))
    ELSE 0

\* Option::or_else for two computed options.
or_else(a, b) == IF is_some(a) THEN a ELSE b

\* current / total when both parsed.
ratio(current, total) ==
    IF ~is_some(current) \/ ~is_some(total) THEN None
    ELSE Some(f64_div(unwrap(current), unwrap(total)))

\* TaskQueue::parse_progress, first heuristic ("downloading... 45%"):
\* before is the text in front of the first '%'.
percent_of(before) ==
    IF rfind_non_numeric(before) = 0 THEN None
    ELSE ratio(parse_f64(SubSeq(before, rfind_non_numeric(before) + 1, Len(before))),
               Some(F64(100, 1)))

parse_percent(line) ==
    IF find_char(line, "%") = 0 THEN None
    ELSE percent_of(SubSeq(line, 1, find_char(line, "%") - 1))

\* TaskQueue::parse_progress, second heuristic ("(1/4) checking keys..."):
\* nums is the text between the first '(' and the first ')'.  (When the
\* first ')' precedes the first '(' the Rust slice line[start + 1..end]
\* panics; the model reads an empty slice there.)
fraction_of(nums) ==
    IF find_char(nums, "/") = 0 THEN None
    ELSE ratio(parse_f64(SubSeq(nums, 1, find_char(nums, "/") - 1)),
               parse_f64(SubSeq(nums, find_char(nums, "/") + 1, Len(nums))))

parse_fraction(line) ==
    IF find_char(line, "(") = 0 \/ find_char(line, ")") = 0 \/ find_char(line, "/") = 0
    THEN None
    ELSE fraction_of(SubSeq(line, find_char(line, "(") + 1, find_char(line, ")") - 1))

parse_progress(line) == or_else(parse_percent(line), parse_fraction(line))

\* The phase a lowered line names: the first substring test that matches.
phase_of(l) ==
    IF contains(l, "resolving dependencies") THEN Some("Resolving dependencies")
    ELSE IF contains(l, "checking keys") THEN Some("Checking keys")
    ELSE IF contains(l, "checking package integrity")
         THEN Some("Verifying package integrity")
    ELSE IF contains(l, "loading package files") THEN Some("Loading package files")
    ELSE IF contains(l, "checking for file conflicts")
         THEN Some("Checking file conflicts")
    ELSE IF contains(l, "downloading") \/ contains(l, "retrieving")
         THEN Some("Downloading")
    ELSE IF contains(l, "building") \/ contains(l, "makepkg") THEN Some("Building")
    ELSE IF contains(l, "installing") \/ contains(l, "upgrading")
         THEN Some("Installing")
    ELSE IF contains(l, "removing") THEN Some("Removing")
    ELSE None

\* TaskQueue::parse_phase: let l = line.to_lowercase(), computed once.
parse_phase(line) == CHOOSE phase \in {phase_of(l) : l \in {to_lowercase(line)}} : TRUE

\* ------------------------------------------------------------------ Task
TaskTypes == {"Install", "Remove", "Update", "UpdatePackage", "CleanCache", "RemoveOrphans"}

Queued == [tag |-> "Queued"]
Running == [tag |-> "Running"]
Completed == [tag |-> "Completed"]
Canceled == [tag |-> "Canceled"]
Failed(e) == [tag |-> "Failed", reason |-> e]

\* matches!(status, Completed | Canceled | Failed(_))
is_terminal(status) == status.tag \in {"Completed", "Canceled", "Failed"}

Task_new(id, task_type, package_name) ==
    [id |-> id, task_type |-> task_type, package_name |-> package_name,
     status |-> Queued, output |-> <<>>, progress |-> None, phase |-> None,
     started_at_unix |-> None, finished_at_unix |-> None]

\* SystemTime::now().duration_since(UNIX_EPOCH).ok().map(|d| d.as_secs());
\* the realtime clock of the host does not read before the epoch.
unix_now(clock) == Some(clock)

\* Iterator::position: index of the first element satisfying Test, 0 if none.
position(ts, Test(_)) ==
    IF \E i \in 1..Len(ts) : Test(ts[i])
    THEN CHOOSE i \in 1..Len(ts) : Test(ts[i]) /\ \A j \in 1..(i - 1) : ~Test(ts[j])
    ELSE 0

find_task(ts, task_id) == position(ts, LAMBDA t : t.id = task_id)

\* Variant of update_task_status that leaves finished_at_unix alone.
update_task_status_no_stamp(ts, task_id, status, clock) ==
    LET idx == find_task(ts, task_id)
    IN  IF idx = 0 THEN ts
        ELSE [ts EXCEPT ![idx] = [@ EXCEPT !.status = status]]

\* ------------------------------------------------------------- TaskQueue
update_task_status(ts, task_id, status, clock) ==
    LET idx == find_task(ts, task_id)
    IN  IF idx = 0 THEN ts
        ELSE IF status = Running
             THEN [ts EXCEPT ![idx] = [@ EXCEPT !.started_at_unix = unix_now(clock),
                                                !.phase = Some("Preparing"),
                                                !.finished_at_unix = None,
                                                !.status = status]]
        ELSE IF is_terminal(status)
             THEN [ts EXCEPT ![idx] = [@ EXCEPT !.finished_at_unix = unix_now(clock),
                                                !.status = status]]
        ELSE [ts EXCEPT ![idx] = [@ EXCEPT !.status = status]]

\* Variant of push_capped that truncates at the tail instead of the head.
push_capped_keep_oldest(output, line, limit_setting) ==
    LET pushed == Append(output, line)
        limit == Max(limit_setting, OutputFloor)
    IN  IF Len(pushed) > limit THEN SubSeq(pushed, 1, limit) ELSE pushed

\* Vec::push followed by drain(0..len - limit) when over the limit.
push_capped(output, line, limit_setting) ==
    LET pushed == Append(output, line)
        limit == Max(limit_setting, OutputFloor)
    IN  IF Len(pushed) > limit
        THEN SubSeq(pushed, Len(pushed) - limit + 1, Len(pushed))
        ELSE pushed

\* Variant of append_line that stores whatever the two parsers return.
append_line_reset(ts, task_id, line, limit_setting) ==
    LET idx == find_task(ts, task_id)
    IN  IF idx = 0 THEN ts
        ELSE [ts EXCEPT ![idx] =
                 [@ EXCEPT !.progress = parse_progress(line),
                           !.phase = parse_phase(line),
                           !.output = push_capped(@, line, limit_setting)]]

\* The body of append_output for a line that is already a value.
append_line(ts, task_id, line, limit_setting) ==
    LET idx == find_task(ts, task_id)
        progress == parse_progress(line)
        phase == parse_phase(line)
    IN  IF idx = 0 THEN ts
        ELSE [ts EXCEPT ![idx] =
                 [@ EXCEPT !.progress = IF is_some(progress) THEN progress ELSE @,
                           !.phase = IF is_some(phase) THEN phase ELSE @,
                           !.output = push_capped(@, line, limit_setting)]]

\* TaskQueue::append_output; the line is computed once by the caller.
append_output(ts, task_id, line, limit_setting) ==
    CHOOSE ts_after \in {append_line(ts, task_id, l, limit_setting) : l \in {line}} : TRUE

\* Variant of clear_completed that keeps the Failed tasks.
clear_completed_keep_failed(ts) ==
    SelectSeq(ts, LAMBDA t : t.status.tag \notin {"Completed", "Canceled"})

\* Variant of clear_completed that keeps only the Queued tasks.
clear_completed_eager(ts) == SelectSeq(ts, LAMBDA t : t.status = Queued)

clear_completed(ts) == SelectSeq(ts, LAMBDA t : ~is_terminal(t.status))

\* Variant of claim_next_queued_task that returns the first Queued task
\* without marking it Running.
claim_without_mark(ts, clock) ==
    LET idx == position(ts, LAMBDA t : t.status = Queued)
    IN  IF idx = 0 THEN [tasks |-> ts, ret |-> None]
        ELSE [tasks |-> ts, ret |-> Some(ts[idx])]

\* Variant of claim_next_queued_task that takes the last Queued task.
claim_last_queued(ts, clock) ==
    LET queued == {i \in 1..Len(ts) : ts[i].status = Queued}
        idx == CHOOSE i \in queued : \A j \in queued : j <= i
    IN  IF queued = {} THEN [tasks |-> ts, ret |-> None]
        ELSE [tasks |-> update_task_status(ts, ts[idx].id, Running, clock),
              ret |-> Some(update_task_status(ts, ts[idx].id, Running, clock)[idx])]

\* Variant of claim_next_queued_task that looks at the head of the queue only.
claim_head_only(ts, clock) ==
    IF Len(ts) = 0 \/ ts[1].status # Queued THEN [tasks |-> ts, ret |-> None]
    ELSE [tasks |-> update_task_status(ts, ts[1].id, Running, clock),
          ret |-> Some(update_task_status(ts, ts[1].id, Running, clock)[1])]

\* Returns the queue after the call and the claimed task (a copy), if any.
claim_next_queued_task(ts, clock) ==
    LET idx == position(ts, LAMBDA t : t.status = Queued)
        task == [ts[idx] EXCEPT !.started_at_unix = unix_now(clock),
                                !.phase = Some("Preparing"),
                                !.finished_at_unix = None,
                                !.status = Running]
    IN  IF idx = 0 THEN [tasks |-> ts, ret |-> None]
        ELSE [tasks |-> [ts EXCEPT ![idx] = task], ret |-> Some(task)]

running_count(ts) == Cardinality({i \in 1..Len(ts) : ts[i].status = Running})

\* Variant of cancel_queued_task that removes the task whatever its status.
cancel_queued_task_any(ts, task_id) ==
    LET kept == SelectSeq(ts, LAMBDA t : t.id # task_id)
    IN  [tasks |-> kept, ret |-> Len(kept) # Len(ts)]

\* Variant of cancel_queued_task that marks the task Canceled in place.
cancel_queued_task_marking(ts, task_id) ==
    LET idx == position(ts, LAMBDA t : t.id = task_id /\ t.status = Queued)
    IN  IF idx = 0 THEN [tasks |-> ts, ret |-> FALSE]
        ELSE [tasks |-> [ts EXCEPT ![idx] = [@ EXCEPT !.status = Canceled]],
              ret |-> TRUE]

cancel_queued_task(ts, task_id) ==
    LET kept == SelectSeq(ts, LAMBDA t : ~(t.id = task_id /\ t.status = Queued))
    IN  [tasks |-> kept, ret |-> Len(kept) # Len(ts)]

swap(ts, i, j) == [ts EXCEPT ![i] = ts[j], ![j] = ts[i]]

\* Variant of move_queued_task_up that swaps with the first Queued task.
move_queued_task_up_first(ts, task_id) ==
    LET idx == position(ts, LAMBDA t : t.id = task_id /\ t.status = Queued)
        prevs == {i \in 1..(idx - 1) : ts[i].status = Queued}
        prev_idx == CHOOSE i \in prevs : \A j \in prevs : i <= j
    IN  IF idx = 0 \/ prevs = {} THEN [tasks |-> ts, ret |-> FALSE]
        ELSE [tasks |-> swap(ts, idx, prev_idx), ret |-> TRUE]

move_queued_task_up(ts, task_id) ==
    LET idx == position(ts, LAMBDA t : t.id = task_id /\ t.status = Queued)
        prevs == {i \in 1..(idx - 1) : ts[i].status = Queued}
        prev_idx == CHOOSE i \in prevs : \A j \in prevs : j <= i
    IN  IF idx = 0 \/ prevs = {} THEN [tasks |-> ts, ret |-> FALSE]
        ELSE [tasks |-> swap(ts, idx, prev_idx), ret |-> TRUE]

\* Variant of move_queued_task_down that swaps with the last Queued task.
move_queued_task_down_last(ts, task_id) ==
    LET idx == position(ts, LAMBDA t : t.id = task_id /\ t.status = Queued)
        nexts == {i \in (idx + 1)..Len(ts) : ts[i].status = Queued}
        next_idx == CHOOSE i \in nexts : \A j \in nexts : j <= i
    IN  IF idx = 0 \/ nexts = {} THEN [tasks |-> ts, ret |-> FALSE]
        ELSE [tasks |-> swap(ts, idx, next_idx), ret |-> TRUE]

\* Variant of move_queued_task_down that moves a task of any status.
move_queued_task_down_any(ts, task_id) ==
    LET idx == find_task(ts, task_id)
        nexts == {i \in (idx + 1)..Len(ts) : ts[i].status = Queued}
        next_idx == CHOOSE i \in nexts : \A j \in nexts : i <= j
    IN  IF idx = 0 \/ nexts = {} THEN [tasks |-> ts, ret |-> FALSE]
        ELSE [tasks |-> swap(ts, idx, next_idx), ret |-> TRUE]

move_queued_task_down(ts, task_id) ==
    LET idx == position(ts, LAMBDA t : t.id = task_id /\ t.status = Queued)
        nexts == {i \in (idx + 1)..Len(ts) : ts[i].status = Queued}
        next_idx == CHOOSE i \in nexts : \A j \in nexts : i <= j
    IN  IF idx = 0 \/ nexts = {} THEN [tasks |-> ts, ret |-> FALSE]
        ELSE [tasks |-> swap(ts, idx, next_idx), ret |-> TRUE]

\* Variant of run_queued_task_now that exchanges the task with the first
\* Queued task.
run_queued_task_now_swap(ts, task_id) ==
    LET idx == position(ts, LAMBDA t : t.id = task_id /\ t.status = Queued)
        first_queued_idx == position(ts, LAMBDA t : t.status = Queued)
    IN  IF idx = 0 \/ first_queued_idx = 0 \/ idx = first_queued_idx
        THEN [tasks |-> ts, ret |-> FALSE]
        ELSE [tasks |-> swap(ts, idx, first_queued_idx), ret |-> TRUE]

\* Vec::remove(idx) followed by Vec::insert(first_queued_idx, task).
run_queued_task_now(ts, task_id) ==
    LET idx == position(ts, LAMBDA t : t.id = task_id /\ t.status = Queued)
        first_queued_idx == position(ts, LAMBDA t : t.status = Queued)
        removed == SubSeq(ts, 1, idx - 1) \o SubSeq(ts, idx + 1, Len(ts))
    IN  IF idx = 0 \/ first_queued_idx = 0 \/ idx = first_queued_idx
        THEN [tasks |-> ts, ret |-> FALSE]
        ELSE [tasks |-> SubSeq(removed, 1, first_queued_idx - 1) \o <<ts[idx]>>
                          \o SubSeq(removed, first_queued_idx, Len(removed)),
              ret |-> TRUE]

\* Variant of is_running that accepts a task of any status.
is_running_any(ts, task_id) == \E i \in 1..Len(ts) : ts[i].id = task_id

\* The check made by request_cancel under the task-list lock.
is_running(ts, task_id) ==
    \E i \in 1..Len(ts) : ts[i].id = task_id /\ ts[i].status = Running

\* HashSet::remove: the set afterwards and whether the id was present.
take_cancel_request(set, task_id) ==
    [set |-> set \ {task_id}, ret |-> task_id \in set]

\* Variant of is_cancel_requested that never sees a request.
is_cancel_requested_never(set, task_id) == FALSE

is_cancel_requested(set, task_id) == task_id \in set

\* u64::saturating_mul; the product stays far below u64::MAX for the
\* retention values of the model.
saturating_mul(a, b) == a * b

\* Variant of auto_clear_by_settings that also removes a task finished
\* exactly at the cutoff.
auto_clear_by_settings_inclusive(ts, minutes, clock) ==
    LET cutoff == saturating_sub(clock, saturating_mul(minutes, SecondsPerMinute))
        Keep(t) == IF ~is_terminal(t.status) THEN TRUE
                   ELSE IF is_some(t.finished_at_unix)
                        THEN unwrap(t.finished_at_unix) > cutoff
                        ELSE TRUE
    IN  IF minutes = 0 THEN ts ELSE SelectSeq(ts, Keep)

auto_clear_by_settings(ts, minutes, clock) ==
    LET cutoff == saturating_sub(clock, saturating_mul(minutes, SecondsPerMinute))
        Keep(t) == IF ~is_terminal(t.status) THEN TRUE
                   ELSE IF is_some(t.finished_at_unix)
                        THEN unwrap(t.finished_at_unix) >= cutoff
                        ELSE TRUE
    IN  IF minutes = 0 THEN ts ELSE SelectSeq(ts, Keep)

\* Variant of retry_lookup that forgets the kind and target of the task.
retry_lookup_fixed(ts, task_id) ==
    LET idx == find_task(ts, task_id)
    IN  IF idx # 0 /\ ts[idx].status.tag = "Failed"
        THEN Some(<<"Install", "foo">>)
        ELSE None

\* Variant of retry_lookup that also accepts a Canceled task.
retry_lookup_terminal(ts, task_id) ==
    LET idx == find_task(ts, task_id)
    IN  IF idx # 0 /\ ts[idx].status.tag \in {"Failed", "Canceled"}
        THEN Some(<<ts[idx].task_type, ts[idx].package_name>>)
        ELSE None

\* The lookup made by retry_failed_task under the task-list lock: the kind
\* and target of the task when it is Failed, None otherwise.
retry_lookup(ts, task_id) ==
    LET idx == find_task(ts, task_id)
    IN  IF idx # 0 /\ ts[idx].status.tag = "Failed"
        THEN Some(<<ts[idx].task_type, ts[idx].package_name>>)
        ELSE None

\* ---------------------------------------------------------------- engine
KnownTerminals == <<"gnome-terminal", "konsole", "xterm", "xfce4-terminal", "alacritty">>

\* Variant of terminal_candidates that puts the preferred terminal last.
terminal_candidates_back(preferred) ==
    IF preferred # "auto"
    THEN SelectSeq(KnownTerminals, LAMBDA t : t # preferred) \o <<preferred>>
    ELSE KnownTerminals

\* The candidate list of run_paru_in_terminal: the preferred terminal, when
\* one is configured, is removed from the list and inserted at the front.
terminal_candidates(preferred) ==
    IF preferred # "auto"
    THEN <<preferred>> \o SelectSeq(KnownTerminals, LAMBDA t : t # preferred)
    ELSE KnownTerminals

KnownTerminals_set == {KnownTerminals[i] : i \in 1..Len(KnownTerminals)}

\* ParuBackend::command_exists: some directory of PATH holds the binary.
command_exists(bins, binary) == binary \in bins

\* The argv of the child: Command::new(terminal) and the arguments the match
\* on the terminal name adds.
terminal_command(terminal, args) ==
    IF terminal = "gnome-terminal" THEN <<terminal, "--", "paru">> \o args
    ELSE IF terminal \in {"konsole", "xterm", "xfce4-terminal", "alacritty"}
         THEN <<terminal, "-e", "paru">> \o args
    ELSE <<terminal>>

\* str::trim for the blanks of the model's strings.
RECURSIVE trim(_)
trim(s) ==
    IF Len(s) > 0 /\ Ch(s, 1) = " " THEN trim(SubSeq(s, 2, Len(s)))
    ELSE IF Len(s) > 0 /\ Ch(s, Len(s)) = " " THEN trim(SubSeq(s, 1, Len(s) - 1))
    ELSE s

RECURSIVE join_comma(_)
join_comma(items) ==
    IF Len(items) = 0 THEN ""
    ELSE IF Len(items) = 1 THEN items[1]
    ELSE items[1] \o "," \o join_comma(Tail(items))

RECURSIVE trimmed_non_empty(_)
trimmed_non_empty(items) ==
    IF Len(items) = 0 THEN <<>>
    ELSE IF trim(items[1]) = "" THEN trimmed_non_empty(Tail(items))
    ELSE <<trim(items[1])>> \o trimmed_non_empty(Tail(items))

\* ParuBackend::update_system: the arguments of a system update.
update_system_args(st) ==
    LET scope == IF st.default_update_scope = "repo-only" THEN <<"--repo">>
                 ELSE IF st.default_update_scope = "aur-only" THEN <<"--aur">>
                 ELSE <<>>
        ignored == trimmed_non_empty(st.ignored_updates)
    IN  <<"-Syu", "--noconfirm">> \o scope
        \o (IF Len(ignored) > 0 THEN <<"--ignore", join_comma(ignored)>> ELSE <<>>)

\* TaskWorker::execute_task: the paru arguments of each kind of task.
task_args(task_type, package_name, st) ==
    CASE task_type = "Install" -> <<"-S", "--noconfirm", package_name>>
      [] task_type = "Remove" -> <<"-Rns", "--noconfirm", package_name>>
      [] task_type = "Update" -> update_system_args(st)
      [] task_type = "UpdatePackage" -> <<"-S", "--noconfirm", package_name>>
      [] task_type = "CleanCache" -> <<"-Sc", "--noconfirm">>
      [] task_type = "RemoveOrphans" -> <<"-c", "--noconfirm">>

Ok == [ok |-> TRUE]
Err(e) == [ok |-> FALSE, err |-> e]

\* The text of the io::Error a failed spawn or a failed wait carries.
SpawnErrorText == "Permission denied (os error 13)"
WaitErrorText == "No child processes (os error 10)"

\* Variant of no_launch_result that does not look at terminal_found.
no_launch_result_not_found(terminal_found, last_error) ==
    Err("No terminal emulator found. Last error: " \o last_error)

\* Variant of no_launch_result that returns the bare last error.
no_launch_result_bare(terminal_found, last_error) == Err(last_error)

\* The result run_paru_in_terminal returns after the candidate loop.
no_launch_result(terminal_found, last_error) ==
    IF ~terminal_found
    THEN Err("No terminal emulator found. Last error: " \o last_error)
    ELSE Err(last_error)

\* Variant of exit_result that reports success for every exit status.
exit_result_ok(success) == Ok

\* The result of the poll loop for a child that has exited.
exit_result(success) ==
    IF success THEN Ok ELSE Err("Operation failed - check terminal output")

\* --------------------------------------------------------------- worker
\* Variant of at_capacity with a strict comparison.
at_capacity_strict(count, max_parallel_tasks) ==
    count > Max(max_parallel_tasks, ParallelFloor)

\* Variant of at_capacity that compares with the configured value as it is.
at_capacity_unfloored(count, max_parallel_tasks) == count >= max_parallel_tasks

\* The scheduler's test before claiming: running_count() >= max_parallel.
at_capacity(count, max_parallel_tasks) ==
    count >= Max(max_parallel_tasks, ParallelFloor)

\* Variant of final_status that keeps the task Running.
final_status_running(result, canceled) == Running

\* The status an execution thread gives its task: the match on the engine
\* result, where canceled is what take_cancel_request returned.
final_status(result, canceled) ==
    IF result.ok THEN Completed
    ELSE IF canceled THEN Canceled
    ELSE Failed(result.err)

\* Variant of alloc_id that does not advance the counter.
alloc_id_fixed(counter) == [id |-> counter, next_id |-> counter]

\* The id add_task hands out and the counter afterwards.
alloc_id(counter) == [id |-> counter, next_id |-> counter + 1]

\* Variant of push_task that inserts at the head of the list.
push_task_front(ts, task) == <<task>> \o ts

\* Vec::push of add_task.
push_task(ts, task) == Append(ts, task)

\* ---------------------------------------------------------------- state
VARIABLES
    tasks,             \* TaskQueue.tasks
    next_id,           \* TaskQueue.next_id
    cancel_requested,  \* TaskQueue.cancel_requested
    settings,          \* the fields of AppSettings the subsystem reads
    now,               \* the realtime clock, in seconds since the epoch
    path_bins,         \* the binaries found on PATH
    sched,             \* position of the scheduler loop of TaskWorker::start
    workers,           \* execution thread of each claimed task, by task id
    ui,                \* the call in progress on the interface thread
    cancel_calls,      \* request_cancel calls that passed the Running check
    claimed,           \* history: ids returned by claim_next_queued_task
    returned,          \* history: ids returned by add_task
    cancel_ack,        \* history: ids whose request_cancel returned true while the child ran
    appended,          \* history: lines passed to append_output (output specification)
    tasks_lock,        \* the thread inside self.tasks.lock(), if any (lock specification)
    calls              \* the queue call each thread is in and how far it got (mutex specification)

vars == <<tasks, next_id, cancel_requested, settings, now, path_bins, sched,
          workers, ui, cancel_calls, claimed, returned, cancel_ack, appended,
          tasks_lock, calls>>

Ids == 0..(MaxTasks - 1)

\* The step by which the clock of the model advances.
ClockStep == 61

\* What the interface enqueues.
EnqueueInputs == {<<"Install", "foo">>, <<"Update", "system">>}

DefaultSettings ==
    [max_parallel_tasks |-> 1, task_output_lines_limit |-> 300,
     auto_clear_completed_tasks_minutes |-> 0, terminal_preference |-> "auto",
     default_update_scope |-> "all", ignored_updates |-> <<>>,
     notify_on_task_complete |-> FALSE, notify_on_task_failed |-> TRUE]

\* The configurations a run starts in: the concurrency cap and the retention
\* read from the settings file, and the terminals installed on the host.
EnvChoices ==
    {[max_parallel_tasks |-> 0, auto_clear_completed_tasks_minutes |-> 0,
      path |-> {"xterm"}],
     [max_parallel_tasks |-> 2, auto_clear_completed_tasks_minutes |-> 1,
      path |-> {}]}
OutputLimitChoices == {0, 50, 51, 52}

\* The threads that call into the queue: the interface thread, the
\* scheduler thread and one execution thread per claimed task.
exec_thread(id) == "exec" \o ToString(id)
LockThreads == {"ui", "sched"} \cup {exec_thread(id) : id \in Ids}

\* A thread that is in no queue call.
NoCall == [op |-> "none", pos |-> 0]

IdleWorker ==
    [pc |-> "idle", task_type |-> "", package_name |-> "", terminals |-> <<>>,
     terminal_found |-> FALSE, last_error |-> "", child |-> "none", cmd |-> <<>>,
     result |-> None, notification |-> None]

IdleUi == [pc |-> "idle", task_id |-> 0, task_type |-> "", package_name |-> ""]

Init ==
    /\ tasks = <<>>
    /\ next_id = 0
    /\ cancel_requested = {}
    /\ \E env \in EnvChoices :
          /\ settings = [DefaultSettings EXCEPT
                            !.max_parallel_tasks = env.max_parallel_tasks,
                            !.auto_clear_completed_tasks_minutes =
                                env.auto_clear_completed_tasks_minutes]
          /\ path_bins = env.path
    /\ now = 0
    /\ sched = [pc |-> "auto_clear"]
    /\ workers = [id \in Ids |-> IdleWorker]
    /\ ui = IdleUi
    /\ cancel_calls = 0
    /\ claimed = <<>>
    /\ returned = <<>>
    /\ cancel_ack = {}
    /\ appended = <<>>
    /\ tasks_lock = None
    /\ calls = [t \in LockThreads |-> NoCall]

env_vars == <<settings, path_bins, tasks_lock, calls>>
hist_vars == <<claimed, returned, cancel_ack, appended>>

\* ------------------------------------------------------ interface thread
\* add_task: the id counter is locked, read and incremented, then the task
\* is pushed under the task-list lock and the id returned.  The counter's
\* lock is held to the end and only this thread takes it, so no other
\* thread observes the state between the two halves.
AddTask ==
    /\ ui.pc = "idle"
    /\ next_id < MaxTasks
    /\ \E input \in EnqueueInputs :
          tasks' = push_task(tasks, Task_new(alloc_id(next_id).id, input[1], input[2]))
    /\ next_id' = alloc_id(next_id).next_id
    /\ returned' = Append(returned, alloc_id(next_id).id)
    /\ UNCHANGED <<cancel_requested, now, sched, workers, ui, cancel_calls,
                   env_vars, claimed, cancel_ack, appended>>

\* retry_failed_task: the lookup under the task-list lock, then add_task
\* with the kind and target found.  For a task that is absent or not Failed
\* the call returns None and changes nothing.  A task cannot stop being
\* Failed between the lookup and add_task other than by being removed, and
\* add_task does not read the task list.
RetryFailedTaskOf(task_id) ==
    /\ ui.pc = "idle"
    /\ next_id < MaxTasks
    /\ LET found == retry_lookup(tasks, task_id)
       IN  IF is_some(found)
           THEN /\ tasks' = push_task(tasks, Task_new(alloc_id(next_id).id,
                                          unwrap(found)[1], unwrap(found)[2]))
                /\ next_id' = alloc_id(next_id).next_id
                /\ returned' = Append(returned, alloc_id(next_id).id)
           ELSE UNCHANGED <<tasks, next_id, returned>>
    /\ UNCHANGED <<cancel_requested, now, sched, workers, ui, cancel_calls,
                   env_vars, claimed, cancel_ack, appended>>

RetryFailedTask == \E task_id \in Ids : RetryFailedTaskOf(task_id)

\* request_cancel, the check under the task-list lock; false is returned,
\* and nothing changes, when the task is not Running.
RequestCancelCheck ==
    /\ ui.pc = "idle"
    /\ cancel_calls < MaxCancelCalls
    /\ \E task_id \in Ids :
          IF is_running(tasks, task_id)
          THEN /\ ui' = [IdleUi EXCEPT !.pc = "cancel_insert", !.task_id = task_id]
               /\ cancel_calls' = cancel_calls + 1
          ELSE UNCHANGED <<ui, cancel_calls>>
    /\ UNCHANGED <<tasks, next_id, cancel_requested, now, sched, workers,
                   env_vars, hist_vars>>

\* request_cancel: the id is inserted into the pending set.
RequestCancelInsert ==
    /\ ui.pc = "cancel_insert"
    /\ cancel_requested' = cancel_requested \cup {ui.task_id}
    /\ ui' = [ui EXCEPT !.pc = "cancel_append"]
    /\ UNCHANGED <<tasks, next_id, now, sched, workers, cancel_calls,
                   env_vars, hist_vars>>

\* request_cancel: the output line is appended and true is returned.
RequestCancelAppend ==
    /\ ui.pc = "cancel_append"
    /\ tasks' = append_output(tasks, ui.task_id, "Cancellation requested...",
                              settings.task_output_lines_limit)
    /\ cancel_ack' = IF workers[ui.task_id].child = "running"
                     THEN cancel_ack \cup {ui.task_id} ELSE cancel_ack
    /\ ui' = IdleUi
    /\ UNCHANGED <<next_id, cancel_requested, now, sched, workers, cancel_calls,
                   env_vars, claimed, returned, appended>>

CancelQueuedTaskOf(task_id) ==
    /\ ui.pc = "idle"
    /\ tasks' = cancel_queued_task(tasks, task_id).tasks
    /\ UNCHANGED <<next_id, cancel_requested, now, sched, workers, ui,
                   cancel_calls, env_vars, hist_vars>>

CancelQueuedTask == \E task_id \in Ids : CancelQueuedTaskOf(task_id)

MoveQueuedTaskUp ==
    /\ ui.pc = "idle"
    /\ \E task_id \in Ids : tasks' = move_queued_task_up(tasks, task_id).tasks
    /\ UNCHANGED <<next_id, cancel_requested, now, sched, workers, ui,
                   cancel_calls, env_vars, hist_vars>>

MoveQueuedTaskDown ==
    /\ ui.pc = "idle"
    /\ \E task_id \in Ids : tasks' = move_queued_task_down(tasks, task_id).tasks
    /\ UNCHANGED <<next_id, cancel_requested, now, sched, workers, ui,
                   cancel_calls, env_vars, hist_vars>>

RunQueuedTaskNow ==
    /\ ui.pc = "idle"
    /\ \E task_id \in Ids : tasks' = run_queued_task_now(tasks, task_id).tasks
    /\ UNCHANGED <<next_id, cancel_requested, now, sched, workers, ui,
                   cancel_calls, env_vars, hist_vars>>

ClearCompleted ==
    /\ ui.pc = "idle"
    /\ tasks' = clear_completed(tasks)
    /\ UNCHANGED <<next_id, cancel_requested, now, sched, workers, ui,
                   cancel_calls, env_vars, hist_vars>>

\* ---------------------------------------------------------------- clock
Tick ==
    /\ now + ClockStep <= MaxClock
    /\ now' = now + ClockStep
    /\ UNCHANGED <<tasks, next_id, cancel_requested, sched, workers, ui,
                   cancel_calls, env_vars, hist_vars>>

\* ------------------------------------------------------- scheduler loop
\* queue.auto_clear_by_settings()
SchedAutoClear ==
    /\ sched.pc = "auto_clear"
    /\ tasks' = auto_clear_by_settings(tasks,
                    settings.auto_clear_completed_tasks_minutes, now)
    /\ sched' = [sched EXCEPT !.pc = "check"]
    /\ UNCHANGED <<next_id, cancel_requested, now, workers, ui, cancel_calls,
                   env_vars, hist_vars>>

\* if queue.running_count() >= max_parallel { sleep; continue }
SchedCheck ==
    /\ sched.pc = "check"
    /\ sched' = [sched EXCEPT !.pc =
                    IF at_capacity(running_count(tasks), settings.max_parallel_tasks)
                    THEN "auto_clear" ELSE "claim"]
    /\ UNCHANGED <<tasks, next_id, cancel_requested, now, workers, ui,
                   cancel_calls, env_vars, hist_vars>>

\* claim_next_queued_task() and, for a claimed task, thread::spawn of its
\* execution thread; otherwise the idle sleep.
SchedClaim ==
    /\ sched.pc = "claim"
    /\ LET res == claim_next_queued_task(tasks, now)
       IN  /\ tasks' = res.tasks
           /\ IF is_some(res.ret)
              THEN /\ workers' = [workers EXCEPT ![unwrap(res.ret).id] =
                          [IdleWorker EXCEPT !.pc = "start",
                               !.task_type = unwrap(res.ret).task_type,
                               !.package_name = unwrap(res.ret).package_name]]
                   /\ claimed' = Append(claimed, unwrap(res.ret).id)
              ELSE UNCHANGED <<workers, claimed>>
    /\ sched' = [sched EXCEPT !.pc = "auto_clear"]
    /\ UNCHANGED <<next_id, cancel_requested, now, ui, cancel_calls, env_vars,
                   returned, cancel_ack, appended>>

\* ----------------------------------------------------- execution thread
\* The execution thread once run_paru_in_terminal has returned: only the
\* result is kept, the locals of the engine are gone.  A child the engine
\* no longer holds is "reaped" (it exited and was waited for) or
\* "detached" (dropped while it may still run).
\* TaskWorker::execute_task, after the engine call: .inspect sends "Parut
\* Task Completed" on Ok and .inspect_err sends "Parut Task Failed" on Err,
\* each when its setting is on; the title sent is kept, None when none was.
notification_for(result) ==
    IF result.ok
    THEN IF settings.notify_on_task_complete THEN Some("Parut Task Completed") ELSE None
    ELSE IF settings.notify_on_task_failed THEN Some("Parut Task Failed") ELSE None

Returned(w, result, child) ==
    [IdleWorker EXCEPT !.pc = "finalize", !.result = Some(result), !.child = child,
                       !.task_type = w.task_type, !.package_name = w.package_name,
                       !.notification = notification_for(result)]

\* The candidates the loop of run_paru_in_terminal has still to try.
remaining_candidates(w) ==
    IF w.pc = "start" THEN terminal_candidates(settings.terminal_preference)
    ELSE w.terminals

\* Index of the first candidate that command_exists finds, 0 if none.
first_available(cands) == position(cands, LAMBDA t : command_exists(path_bins, t))

\* output_callback(format!("Running in terminal: {} paru {}", ...))
running_line(terminal, args) ==
    "Running in terminal: " \o terminal \o " paru " \o join_space(args)

\* The candidate loop ran out of candidates: the engine returns its error.
EngineNoCandidate(id, w) ==
    /\ workers' = [workers EXCEPT ![id] =
          Returned(w, no_launch_result(w.terminal_found, w.last_error), w.child)]
    /\ UNCHANGED tasks

\* A candidate on PATH: the line is emitted and cmd.spawn() succeeds, which
\* opens the terminal, or fails, which records last_error.
EngineSpawn(id, w, terminal, rest, args) ==
    /\ tasks' = append_output(tasks, id, running_line(terminal, args),
                              settings.task_output_lines_limit)
    /\ \E spawned \in BOOLEAN :
          workers' = [workers EXCEPT ![id] =
              IF spawned
              THEN [w EXCEPT !.pc = "opened", !.terminals = rest,
                             !.terminal_found = TRUE, !.child = "running",
                             !.cmd = terminal_command(terminal, args)]
              ELSE [w EXCEPT !.pc = "select", !.terminals = rest,
                             !.terminal_found = TRUE,
                             !.last_error = "Failed to spawn " \o terminal
                                            \o ": " \o SpawnErrorText]]

EngineTry(id, w, cands, k) ==
    IF k = 0 THEN EngineNoCandidate(id, w)
    ELSE EngineSpawn(id, w, cands[k], SubSeq(cands, k + 1, Len(cands)),
                     task_args(w.task_type, w.package_name, settings))

\* run_paru_in_terminal, the candidate loop: candidates that are not on
\* PATH are skipped; for the first one that is, the "Running in terminal"
\* line is emitted and the command is spawned.  A spawn that fails records
\* the error and the loop goes on with the candidates that remain.
EngineSelect(id) ==
    /\ workers[id].pc \in {"start", "select"}
    /\ EngineTry(id, workers[id], remaining_candidates(workers[id]),
                 first_available(remaining_candidates(workers[id])))
    /\ UNCHANGED <<next_id, cancel_requested, now, sched, ui, cancel_calls,
                   env_vars, hist_vars>>

\* output_callback("Terminal opened - waiting for completion...")
EngineOpened(id) ==
    /\ workers[id].pc = "opened"
    /\ tasks' = append_output(tasks, id, "Terminal opened - waiting for completion...",
                              settings.task_output_lines_limit)
    /\ workers' = [workers EXCEPT ![id].pc = "poll_cancel"]
    /\ UNCHANGED <<next_id, cancel_requested, now, sched, ui, cancel_calls,
                   env_vars, hist_vars>>

\* The poll loop, first half: if cancel_requested() { kill; wait; ... }
EnginePollCancel(id) ==
    /\ workers[id].pc = "poll_cancel"
    /\ workers' = [workers EXCEPT ![id] =
          IF is_cancel_requested(cancel_requested, id)
          THEN [@ EXCEPT !.pc = "canceled", !.child = "reaped"]
          ELSE [@ EXCEPT !.pc = "poll_wait"]]
    /\ UNCHANGED <<tasks, next_id, cancel_requested, now, sched, ui, cancel_calls,
                   env_vars, hist_vars>>

\* output_callback("Task canceled by user."); return Err(...)
EngineCanceled(id) ==
    /\ workers[id].pc = "canceled"
    /\ tasks' = append_output(tasks, id, "Task canceled by user.",
                              settings.task_output_lines_limit)
    /\ workers' = [workers EXCEPT ![id] =
          Returned(@, Err("Task canceled by user"), @.child)]
    /\ UNCHANGED <<next_id, cancel_requested, now, sched, ui, cancel_calls,
                   env_vars, hist_vars>>

\* The poll loop, second half: match child.try_wait()
EnginePollWait(id) ==
    LET w == workers[id]
    IN  /\ w.pc = "poll_wait"
        /\ \/ /\ w.child \in {"exited_ok", "exited_fail"}
              /\ workers' = [workers EXCEPT ![id] =
                    Returned(w, exit_result(w.child = "exited_ok"), "reaped")]
           \/ /\ w.child = "running"
              /\ workers' = [workers EXCEPT ![id].pc = "poll_cancel"]
           \/ workers' = [workers EXCEPT ![id] =
                    Returned(w, Err("Failed to wait for terminal: " \o WaitErrorText),
                             IF w.child = "running" THEN "detached" ELSE "reaped")]
        /\ UNCHANGED <<tasks, next_id, cancel_requested, now, sched, ui,
                       cancel_calls, env_vars, hist_vars>>

\* The child process exits by itself, with status 0 or not.
ChildExit(id) ==
    /\ workers[id].child = "running"
    /\ \E status \in {"exited_ok", "exited_fail"} :
          workers' = [workers EXCEPT ![id].child = status]
    /\ UNCHANGED <<tasks, next_id, cancel_requested, now, sched, ui, cancel_calls,
                   env_vars, hist_vars>>

\* The match on the engine result in the execution thread: Ok finalizes the
\* task at once; Err first takes the cancel request.
FinalizeMatch(id) ==
    LET w == workers[id]
        result == unwrap(w.result)
        taken == take_cancel_request(cancel_requested, id)
    IN  /\ w.pc = "finalize"
        /\ IF result.ok
           THEN /\ tasks' = update_task_status(tasks, id, final_status(result, FALSE), now)
                /\ workers' = [workers EXCEPT ![id] = [IdleWorker EXCEPT !.pc = "done"]]
                /\ UNCHANGED cancel_requested
           ELSE /\ cancel_requested' = taken.set
                /\ workers' = [workers EXCEPT ![id].pc =
                                  IF taken.ret THEN "set_canceled" ELSE "set_failed"]
                /\ UNCHANGED tasks
        /\ UNCHANGED <<next_id, now, sched, ui, cancel_calls, env_vars, hist_vars>>

\* update_task_status(task.id, Canceled) or (task.id, Failed(e))
FinalizeErr(id) ==
    LET w == workers[id]
    IN  /\ w.pc \in {"set_canceled", "set_failed"}
        /\ tasks' = update_task_status(tasks, id,
                        final_status(unwrap(w.result), w.pc = "set_canceled"), now)
        /\ workers' = [workers EXCEPT ![id] = [IdleWorker EXCEPT !.pc = "done"]]
        /\ UNCHANGED <<next_id, cancel_requested, now, sched, ui, cancel_calls,
                       env_vars, hist_vars>>

Worker(id) ==
    \/ EngineSelect(id)
    \/ EngineOpened(id)
    \/ EnginePollCancel(id)
    \/ EngineCanceled(id)
    \/ EnginePollWait(id)
    \/ FinalizeMatch(id)
    \/ FinalizeErr(id)

Interface ==
    \/ AddTask
    \/ RetryFailedTask
    \/ RequestCancelCheck
    \/ RequestCancelInsert
    \/ RequestCancelAppend
    \/ ClearCompleted

Reorder ==
    \/ CancelQueuedTask
    \/ MoveQueuedTaskUp
    \/ MoveQueuedTaskDown
    \/ RunQueuedTaskNow

Scheduler ==
    \/ SchedAutoClear
    \/ SchedCheck
    \/ SchedClaim

Next ==
    \/ Interface
    \/ Reorder
    \/ Scheduler
    \/ \E id \in Ids : Worker(id)
    \/ \E id \in Ids : ChildExit(id)
    \/ Tick

Spec == Init /\ [][Next]_vars

\* ------------------------------------------- dispatch without reordering
\* The program when the interface makes no move-up, move-down, run-now or
\* cancel-while-queued call.
NextFifo ==
    \/ Interface
    \/ Scheduler
    \/ \E id \in Ids : Worker(id)
    \/ \E id \in Ids : ChildExit(id)
    \/ Tick

SpecFifo == Init /\ [][NextFifo]_vars

\* ------------------------------------------------ fair execution threads
\* Every execution thread is an operating-system thread of its own
\* (thread::spawn in TaskWorker::start) and keeps being scheduled.  The
\* clock is left out: it only feeds the time stamps and the retention.
NextLive ==
    \/ Interface
    \/ Reorder
    \/ Scheduler
    \/ \E id \in Ids : Worker(id)
    \/ \E id \in Ids : ChildExit(id)

SpecLive == Init /\ [][NextLive]_vars /\ \A id \in Ids : WF_vars(Worker(id))

\* ------------------------------------------------------ output of a task
\* One Running task whose output receives a long burst of lines, under each
\* of the output limits of OutputLimitChoices.
OutputTaskId == 0

InitOutput ==
    /\ tasks = claim_next_queued_task(
                   push_task(<<>>, Task_new(OutputTaskId, "Install", "foo")), 0).tasks
    /\ next_id = OutputTaskId + 1
    /\ cancel_requested = {}
    /\ \E limit \in OutputLimitChoices :
          settings = [DefaultSettings EXCEPT !.task_output_lines_limit = limit]
    /\ path_bins = {"xterm"}
    /\ now = 0
    /\ sched = [pc |-> "auto_clear"]
    /\ workers = [id \in Ids |-> IF id = OutputTaskId
                                 THEN [IdleWorker EXCEPT !.pc = "poll_cancel",
                                                         !.child = "running"]
                                 ELSE IdleWorker]
    /\ ui = IdleUi
    /\ cancel_calls = 0
    /\ claimed = <<OutputTaskId>>
    /\ returned = <<OutputTaskId>>
    /\ cancel_ack = {}
    /\ appended = <<>>
    /\ tasks_lock = None
    /\ calls = [t \in LockThreads |-> NoCall]

\* The n-th line of the burst.
output_line(n) == "line " \o ToString(n)

\* One append_output call for the Running task.
AppendOutput ==
    /\ Len(appended) < MaxAppends
    /\ tasks' = append_output(tasks, OutputTaskId, output_line(Len(appended) + 1),
                              settings.task_output_lines_limit)
    /\ appended' = Append(appended, output_line(Len(appended) + 1))
    /\ UNCHANGED <<next_id, cancel_requested, now, sched, workers, ui,
                   cancel_calls, env_vars, claimed, returned, cancel_ack>>

NextOutput == AppendOutput

SpecOutput == InitOutput /\ [][NextOutput]_vars

\* ------------------------------------------------------------ properties
status_of(ts, task_id) == ts[find_task(ts, task_id)].status
has_task(ts, task_id) == find_task(ts, task_id) # 0
effective_cap == Max(settings.max_parallel_tasks, ParallelFloor)

\* C1: in every reachable state the number of Running tasks is at most the
\* effective concurrency cap max(N, 1).
C1_RunningWithinCap == running_count(tasks) <= effective_cap

\* A state where the cap binds: as many tasks run as the cap allows while
\* another task waits Queued.
C1_Witness ==
    /\ running_count(tasks) = effective_cap
    /\ \E i \in 1..Len(tasks) : tasks[i].status = Queued
    /\ sched.pc = "auto_clear"

\* C2: no task is returned by claim_next_queued_task more than once, so a
\* task is dispatched to at most one execution thread.
C2_ClaimedOnce ==
    \A i, j \in 1..Len(claimed) : claimed[i] = claimed[j] => i = j

\* Two claims have been made, the first task has run to its end and the
\* scheduler is about to claim again.
C2_Witness ==
    /\ Len(claimed) = 2
    /\ workers[claimed[1]].pc = "done"
    /\ sched.pc = "claim"

\* C3: a task whose request_cancel call returned true while its child
\* process was still running never ends with a status other than Canceled.
C3_CancelPrecedence ==
    \A i \in 1..Len(tasks) :
        (tasks[i].id \in cancel_ack /\ is_terminal(tasks[i].status))
            => tasks[i].status = Canceled

\* C4: the step in which an execution thread resolves the engine result of
\* a task whose id is in the pending-cancel set resolves it to Canceled,
\* whether the result is success or failure.
C4_PendingCancelWins ==
    [][\A id \in Ids :
          (/\ workers[id].pc = "finalize"
           /\ workers'[id].pc # "finalize"
           /\ is_cancel_requested(cancel_requested, id))
              => \/ workers'[id].pc = "set_canceled"
                 \/ (has_task(tasks', id) /\ status_of(tasks', id) = Canceled)]_vars

\* The ids handed out so far are strictly increasing and below the counter,
\* and the tasks of the queue carry pairwise distinct ids that were all
\* handed out.
C5_IdsInOrder ==
    /\ \A i, j \in 1..Len(returned) : i < j => returned[i] < returned[j]
    /\ \A i \in 1..Len(returned) : returned[i] < next_id
    /\ \A i, j \in 1..Len(tasks) : tasks[i].id = tasks[j].id => i = j
    /\ \A i \in 1..Len(tasks) : \E k \in 1..Len(returned) : returned[k] = tasks[i].id

\* C5: the ids returned by add_task and retry_failed_task are strictly
\* increasing in allocation order (hence pairwise distinct and never handed
\* out again after a removal), and no step changes the id of a task: an id
\* that stays in the queue keeps its kind and target.
C5_IdsUnique ==
    /\ []C5_IdsInOrder
    /\ [][\A id \in Ids :
             (has_task(tasks, id) /\ has_task(tasks', id))
                => /\ tasks'[find_task(tasks', id)].task_type
                        = tasks[find_task(tasks, id)].task_type
                   /\ tasks'[find_task(tasks', id)].package_name
                        = tasks[find_task(tasks, id)].package_name]_vars

\* The first task was removed from the queue and a later add_task or
\* retry_failed_task call returned a fresh id.
C5_Witness ==
    /\ Len(returned) = 2
    /\ ~has_task(tasks, returned[1])
    /\ has_task(tasks, returned[2])

\* C6: without reordering and cancel-while-queued calls the tasks are
\* claimed in the order in which add_task returned their ids: the sequence
\* of claims is a prefix of the sequence of enqueues.
C6_FifoClaims ==
    /\ Len(claimed) <= Len(returned)
    /\ claimed = SubSeq(returned, 1, Len(claimed))

\* Both tasks of the queue have been claimed, after the clock advanced.
C6_Witness ==
    /\ Len(claimed) = 2
    /\ \A i \in 1..Len(tasks) :
          is_some(tasks[i].started_at_unix) /\ unwrap(tasks[i].started_at_unix) > 0
    /\ Len(tasks) = 2

\* C7: in every step the status of a task that stays in the queue is
\* unchanged, goes from Queued to Running, or goes from Running to
\* Completed, Canceled or Failed.
C7_StatusTransitions ==
    [][\A id \in Ids :
          (has_task(tasks, id) /\ has_task(tasks', id))
             => \/ status_of(tasks', id) = status_of(tasks, id)
                \/ status_of(tasks, id) = Queued /\ status_of(tasks', id) = Running
                \/ status_of(tasks, id) = Running
                     /\ is_terminal(status_of(tasks', id))]_vars

\* A task failed while a cancel request for it was arriving, the request
\* is still pending, and a second task was claimed after the clock advanced.
C7_Witness ==
    /\ Len(tasks) = 2
    /\ tasks[1].status.tag = "Failed"
    /\ tasks[1].finished_at_unix = Some(0)
    /\ tasks[1].id \in cancel_requested
    /\ tasks[2].status = Running
    /\ tasks[2].started_at_unix = Some(ClockStep)

\* C8: for every task of the queue, finished_at_unix is set exactly when
\* the status is Completed, Canceled or Failed.
C8_FinishedIffTerminal ==
    \A i \in 1..Len(tasks) :
        is_some(tasks[i].finished_at_unix) <=> is_terminal(tasks[i].status)

\* The queue holds a finished task beside a Running one, and the finished
\* task received its stamp after the clock advanced.
C8_Witness ==
    \E i, j \in 1..Len(tasks) :
        /\ is_terminal(tasks[i].status)
        /\ tasks[i].finished_at_unix = Some(ClockStep)
        /\ tasks[j].status = Running

\* The engine run of the task has ended or is bound to end: the engine
\* has returned, cancellation was observed, the child has exited, or no
\* candidate terminal is left to launch.
engine_run_ends(id) ==
    \/ workers[id].pc \in {"finalize", "set_canceled", "set_failed", "canceled"}
    \/ /\ workers[id].pc \in {"poll_cancel", "poll_wait"}
       /\ workers[id].child \in {"exited_ok", "exited_fail"}
    \/ /\ workers[id].pc = "start"
       /\ \A t \in KnownTerminals_set : ~command_exists(path_bins, t)
    \/ /\ workers[id].pc = "select"
       /\ \A i \in 1..Len(workers[id].terminals) :
             ~command_exists(path_bins, workers[id].terminals[i])

reached_terminal(id) == has_task(tasks, id) /\ is_terminal(status_of(tasks, id))

\* C9: with fair execution threads, every task whose engine run ends
\* (no terminal found, every spawn failed, child exited, wait failed, or
\* cancellation observed) reaches Completed, Canceled or Failed.
C9_RunEndsTerminal ==
    \A id \in Ids : engine_run_ends(id) ~> reached_terminal(id)

\* An execution thread has finished a task whose child was launched.
C9_Witness ==
    \E id \in Ids :
        /\ workers[id].pc = "done"
        /\ reached_terminal(id)
        /\ Len(tasks[find_task(tasks, id)].output) >= 2

\* C10: with the output limit fixed at c, the output of the task is at
\* most max(c, 50) lines long and equals the most recently appended lines in
\* the order of their appends.
C10_OutputIsRecentSuffix ==
    \A i \in 1..Len(tasks) :
        LET limit == Max(settings.task_output_lines_limit, OutputFloor)
            kept == Min(Len(appended), limit)
        IN  /\ Len(tasks[i].output) <= limit
            /\ tasks[i].output =
                   SubSeq(appended, Len(appended) - kept + 1, Len(appended))

\* The burst went past a limit above the floor: lines were dropped and the
\* output holds exactly the limit.
C10_Witness ==
    /\ settings.task_output_lines_limit = 51
    /\ Len(appended) = 53
    /\ Len(tasks[1].output) = 51
    /\ tasks[1].output[1] = output_line(3)

\* C11: retry_failed_task on a Failed task returns a new id different from
\* the id of that task and appends, at the tail of the queue, a new Queued
\* task of the same kind and target; every task already in the queue, the
\* Failed one included, is left as it was.
C11_RetryAppendsCopy ==
    [][\A id \in Ids :
          (/\ has_task(tasks, id)
           /\ status_of(tasks, id).tag = "Failed"
           /\ RetryFailedTaskOf(id))
             => /\ Len(returned') = Len(returned) + 1
                /\ returned'[Len(returned')] # id
                /\ tasks' = Append(tasks,
                       Task_new(returned'[Len(returned')],
                                tasks[find_task(tasks, id)].task_type,
                                tasks[find_task(tasks, id)].package_name))]_vars

\* A failed system update was retried: the Failed task is followed by a
\* Queued task of the same kind and target with the next id.
C11_Witness ==
    /\ Len(tasks) = 2
    /\ tasks[1].status.tag = "Failed" /\ tasks[1].task_type = "Update"
    /\ tasks[2] = Task_new(1, "Update", "system")
    /\ Len(tasks[1].output) > 0

\* C12: cancel_queued_task either finds the task Queued, returns true and
\* removes it, in which case the task was never claimed, has no execution
\* thread and never enters the queue again (so it is never Running and
\* never Canceled); or it returns false and leaves the queue as it was.  A
\* task that is claimed is in the queue and Queued when it is claimed.
C12_CancelQueuedExcludesRun ==
    /\ [][\A id \in Ids :
             CancelQueuedTaskOf(id)
                => IF has_task(tasks, id) /\ status_of(tasks, id) = Queued
                   THEN /\ cancel_queued_task(tasks, id).ret
                        /\ tasks' = SelectSeq(tasks, LAMBDA t : t.id # id)
                        /\ \A i \in 1..Len(claimed) : claimed[i] # id
                        /\ workers[id].pc = "idle"
                   ELSE /\ ~cancel_queued_task(tasks, id).ret
                        /\ tasks' = tasks]_vars
    /\ [][\A id \in Ids :
             (id < next_id /\ ~has_task(tasks, id)) => ~has_task(tasks', id)]_vars
    /\ [][\A id \in Ids :
             (Len(claimed') > Len(claimed) /\ claimed'[Len(claimed')] = id)
                => has_task(tasks, id) /\ status_of(tasks, id) = Queued]_vars

\* The first task was canceled while Queued and is gone without ever having
\* been claimed, while the scheduler claimed the second one.
C12_Witness ==
    /\ returned = <<0, 1>>
    /\ claimed = <<1>>
    /\ ~has_task(tasks, 0)
    /\ has_task(tasks, 1)

\* C13: request_cancel goes past its check only for a task that is Running
\* at the check (otherwise it returns false having changed nothing); it
\* then adds the id to the pending-cancel set and returns true, none of its
\* steps changes the status of any task, and the set grows in no other step.
C13_RequestCancelFrame ==
    [][/\ (ui.pc = "idle" /\ ui'.pc = "cancel_insert")
             => /\ has_task(tasks, ui'.task_id)
                /\ status_of(tasks, ui'.task_id) = Running
                /\ UNCHANGED <<tasks, cancel_requested>>
       /\ (ui.pc = "cancel_insert" /\ ui'.pc # "cancel_insert")
             => /\ ui'.pc = "cancel_append"
                /\ cancel_requested' = cancel_requested \cup {ui.task_id}
                /\ UNCHANGED tasks
       /\ (ui.pc = "cancel_append" /\ ui'.pc # "cancel_append")
             => /\ ui'.pc = "idle"
                /\ UNCHANGED cancel_requested
                /\ Len(tasks') = Len(tasks)
                /\ \A i \in 1..Len(tasks) :
                      /\ tasks'[i].id = tasks[i].id
                      /\ tasks'[i].status = tasks[i].status
       /\ ~(cancel_requested' \subseteq cancel_requested)
             => ui.pc = "cancel_insert"]_vars

\* request_cancel has recorded its request for a Running task and is about
\* to return true, while a second task waits Queued.
C13_Witness ==
    /\ ui.pc = "cancel_append"
    /\ ui.task_id \in cancel_requested
    /\ is_running(tasks, ui.task_id)
    /\ \E i \in 1..Len(tasks) : tasks[i].status = Queued

\* C14: for an id that is absent or whose task is not Queued, each of
\* move_queued_task_up, move_queued_task_down, run_queued_task_now and
\* cancel_queued_task returns false and leaves the queue as it is; none of
\* the four ever changes the pending-cancel set.
C14_NotQueuedIsNoOp ==
    /\ [](\A id \in Ids :
            ~(has_task(tasks, id) /\ status_of(tasks, id) = Queued)
               => /\ move_queued_task_up(tasks, id) = [tasks |-> tasks, ret |-> FALSE]
                  /\ move_queued_task_down(tasks, id) = [tasks |-> tasks, ret |-> FALSE]
                  /\ run_queued_task_now(tasks, id) = [tasks |-> tasks, ret |-> FALSE]
                  /\ cancel_queued_task(tasks, id) = [tasks |-> tasks, ret |-> FALSE])
    /\ [][Reorder => UNCHANGED cancel_requested]_vars

\* The interface is free to call while the queue holds a Running task with
\* a pending cancel request, a Queued task behind it, and one id is absent.
C14_Witness ==
    /\ ui.pc = "idle"
    /\ Len(tasks) = 2
    /\ tasks[1].status = Running /\ tasks[1].id \in cancel_requested
    /\ tasks[2].status = Queued
    /\ next_id = 2

\* C15: retry_failed_task on an id that is absent, or whose task is
\* Queued, Running, Completed or Canceled, returns no id, allocates no id
\* and adds no task: the call leaves the queue, the id counter and the
\* returned ids as they were.
C15_RetryOnlyFailed ==
    [][\A id \in Ids :
          (/\ RetryFailedTaskOf(id)
           /\ ~(has_task(tasks, id) /\ status_of(tasks, id).tag = "Failed"))
             => UNCHANGED <<tasks, next_id, returned>>]_vars

\* A Canceled task is in the queue while the interface is free to call
\* retry_failed_task and an id is still available.
C15_Witness ==
    /\ ui.pc = "idle"
    /\ next_id < MaxTasks
    /\ \E i \in 1..Len(tasks) : tasks[i].status = Canceled

\* No candidate terminal emulator is on the search path.
C16_NoTerminal ==
    first_available(terminal_candidates(settings.terminal_preference)) = 0

C16_BeginsWith(s, prefix) ==
    Len(s) >= Len(prefix) /\ SubSeq(s, 1, Len(prefix)) = prefix

C16_NoTerminalError(result) ==
    ~result.ok /\ C16_BeginsWith(result.err, "No terminal emulator found")

\* C16 (amended): when no candidate terminal emulator is on the search
\* path, the engine spawns no process and returns an error whose text
\* begins with "No terminal emulator found"; the claimed task is finalized
\* as Failed carrying that message, unless a cancel request for it is
\* pending when the result is matched, in which case it is finalized as
\* Canceled; no step that advances an execution thread enqueues a task,
\* removes one or allocates an id.
C16_NoTerminalFailsUnlessCanceled ==
    /\ [](C16_NoTerminal =>
            \A id \in Ids :
               /\ workers[id].child = "none"
               /\ is_some(workers[id].result)
                     => C16_NoTerminalError(unwrap(workers[id].result)))
    /\ [][\A id \in Ids :
            /\ (C16_NoTerminal /\ workers[id].pc = "finalize" /\ workers'[id].pc # "finalize")
                  => workers'[id].pc =
                        IF id \in cancel_requested THEN "set_canceled" ELSE "set_failed"
            /\ (C16_NoTerminal /\ workers[id].pc = "set_failed" /\ workers'[id].pc = "done")
                  => /\ has_task(tasks', id)
                     /\ status_of(tasks', id) = Failed(unwrap(workers[id].result).err)
            /\ (C16_NoTerminal /\ workers[id].pc = "set_canceled" /\ workers'[id].pc = "done")
                  => /\ has_task(tasks', id)
                     /\ status_of(tasks', id) = Canceled
            /\ workers'[id] # workers[id]
                  => /\ [i \in 1..Len(tasks') |-> tasks'[i].id]
                           = [i \in 1..Len(tasks) |-> tasks[i].id]
                     /\ next_id' = next_id]_vars

\* C16 as stated: with no candidate terminal emulator on the search path
\* the claimed task is always finalized as Failed.
C16_NoTerminalAlwaysFailed ==
    [][\A id \in Ids :
          (/\ C16_NoTerminal
           /\ workers[id].pc \in {"set_failed", "set_canceled"}
           /\ workers'[id].pc = "done")
             => status_of(tasks', id).tag = "Failed"]_vars

\* With no terminal emulator on the search path, a task has been finalized
\* as Failed with the engine's message, no child was spawned, and the queue
\* holds no other task.
C16_Witness ==
    /\ C16_NoTerminal
    /\ Len(tasks) = 1
    /\ tasks[1].status.tag = "Failed"
    /\ C16_BeginsWith(tasks[1].status.reason, "No terminal emulator found")
    /\ workers[tasks[1].id].pc = "done"
    /\ next_id = 1

\* The error the poll loop returns when try_wait itself fails.
C17_WaitError == Err("Failed to wait for terminal: " \o WaitErrorText)

unlock_kept(holder) == IF holder \in {"ui", "sched"} THEN None ELSE Some(holder)

\* The MutexGuard is dropped when the queue function returns.
unlock(holder) == None

\* Positions of an execution thread whose next call is append_output or
\* update_task_status.
ExecCallPcs ==
    {"emit_running", "opened", "canceled", "set_completed", "set_canceled", "set_failed"}

\* Positions of an execution thread in Command::spawn and in the poll loop
\* (is_cancel_requested, kill and wait, try_wait, sleep).
SubprocessPcs == {"spawn", "poll_cancel", "poll_wait"}

\* The thread is at a call of a function that takes the task-list lock.
\* The scheduler loop goes from one such call to the next.
in_queue_call(t) ==
    \/ t = "ui" /\ ui.pc \in {"idle", "cancel_append"}
    \/ t = "sched"
    \/ \E id \in Ids : t = exec_thread(id) /\ workers[id].pc \in ExecCallPcs

InitLock ==
    /\ tasks = <<>>
    /\ next_id = 0
    /\ cancel_requested = {}
    /\ settings = [DefaultSettings EXCEPT !.max_parallel_tasks = MaxTasks]
    /\ path_bins = {"xterm"}
    /\ now = 0
    /\ sched = [pc |-> "auto_clear"]
    /\ workers = [id \in Ids |-> IdleWorker]
    /\ ui = IdleUi
    /\ cancel_calls = 0
    /\ claimed = <<>>
    /\ returned = <<>>
    /\ cancel_ack = {}
    /\ appended = <<>>
    /\ tasks_lock = None
    /\ calls = [t \in LockThreads |-> NoCall]

\* self.tasks.lock().unwrap(): the caller goes on once the lock is free.
TasksLock(t) ==
    /\ tasks_lock = None
    /\ in_queue_call(t)
    /\ tasks_lock' = Some(t)
    /\ UNCHANGED <<tasks, next_id, cancel_requested, settings, now, path_bins, calls,
                   sched, workers, ui, cancel_calls, hist_vars>>

\* The queue calls of the interface thread, run with the lock held:
\* add_task, get_tasks, cancel_queued_task, clear_completed, the check of
\* request_cancel and its closing append_output.
UiQueueCall ==
    /\ tasks_lock = Some("ui")
    /\ \/ /\ ui.pc = "idle"
          /\ next_id < MaxTasks
          /\ \E input \in EnqueueInputs :
                tasks' = push_task(tasks, Task_new(alloc_id(next_id).id, input[1], input[2]))
          /\ next_id' = alloc_id(next_id).next_id
          /\ returned' = Append(returned, alloc_id(next_id).id)
          /\ UNCHANGED <<ui, cancel_calls>>
       \/ /\ ui.pc = "idle"
          /\ UNCHANGED <<tasks, next_id, returned, ui, cancel_calls>>
       \/ /\ ui.pc = "idle"
          /\ \E task_id \in Ids : tasks' = cancel_queued_task(tasks, task_id).tasks
          /\ UNCHANGED <<next_id, returned, ui, cancel_calls>>
       \/ /\ ui.pc = "idle"
          /\ tasks' = clear_completed(tasks)
          /\ UNCHANGED <<next_id, returned, ui, cancel_calls>>
       \/ /\ ui.pc = "idle"
          /\ cancel_calls < MaxCancelCalls
          /\ \E task_id \in Ids :
                /\ is_running(tasks, task_id)
                /\ ui' = [IdleUi EXCEPT !.pc = "cancel_insert", !.task_id = task_id]
          /\ cancel_calls' = cancel_calls + 1
          /\ UNCHANGED <<tasks, next_id, returned>>
       \/ /\ ui.pc = "cancel_append"
          /\ tasks' = append_output(tasks, ui.task_id, "Cancellation requested...",
                                    settings.task_output_lines_limit)
          /\ ui' = IdleUi
          /\ UNCHANGED <<next_id, returned, cancel_calls>>
    /\ tasks_lock' = unlock("ui")
    /\ UNCHANGED <<cancel_requested, settings, now, path_bins, calls, sched, workers,
                   claimed, cancel_ack, appended>>

\* The queue calls of the scheduler loop, run with the lock held:
\* auto_clear_by_settings, running_count and claim_next_queued_task.
SchedQueueCall ==
    /\ tasks_lock = Some("sched")
    /\ \/ /\ sched.pc = "auto_clear"
          /\ tasks' = auto_clear_by_settings(tasks,
                          settings.auto_clear_completed_tasks_minutes, now)
          /\ sched' = [sched EXCEPT !.pc = "check"]
          /\ UNCHANGED <<workers, claimed>>
       \/ /\ sched.pc = "check"
          /\ sched' = [sched EXCEPT !.pc =
                          IF at_capacity(running_count(tasks), settings.max_parallel_tasks)
                          THEN "auto_clear" ELSE "claim"]
          /\ UNCHANGED <<tasks, workers, claimed>>
       \/ /\ sched.pc = "claim"
          /\ tasks' = claim_next_queued_task(tasks, now).tasks
          /\ IF is_some(claim_next_queued_task(tasks, now).ret)
             THEN /\ workers' = [workers EXCEPT
                        ![unwrap(claim_next_queued_task(tasks, now).ret).id] =
                           [IdleWorker EXCEPT !.pc = "start",
                              !.task_type = unwrap(claim_next_queued_task(tasks, now).ret).task_type,
                              !.package_name = unwrap(claim_next_queued_task(tasks, now).ret).package_name]]
                  /\ claimed' = Append(claimed, unwrap(claim_next_queued_task(tasks, now).ret).id)
             ELSE UNCHANGED <<workers, claimed>>
          /\ sched' = [sched EXCEPT !.pc = "auto_clear"]
    /\ tasks_lock' = unlock("sched")
    /\ UNCHANGED <<next_id, cancel_requested, settings, now, path_bins, calls, ui,
                   cancel_calls, returned, cancel_ack, appended>>

\* The candidate loop of run_paru_in_terminal up to the output callback:
\* candidates not on PATH are skipped and the command is built.
select_candidate(w, cands, k) ==
    IF k = 0
    THEN Returned(w, no_launch_result(w.terminal_found, w.last_error), w.child)
    ELSE [w EXCEPT !.pc = "emit_running",
                   !.terminals = SubSeq(cands, k + 1, Len(cands)),
                   !.terminal_found = TRUE,
                   !.cmd = terminal_command(cands[k],
                              task_args(w.task_type, w.package_name, settings))]

ExecSelect(id) ==
    /\ workers[id].pc \in {"start", "select"}
    /\ workers' = [workers EXCEPT ![id] =
          select_candidate(workers[id], remaining_candidates(workers[id]),
                           first_available(remaining_candidates(workers[id])))]
    /\ UNCHANGED <<tasks, next_id, cancel_requested, now, sched, ui, cancel_calls,
                   env_vars, hist_vars>>

\* The queue calls of an execution thread, run with the lock held: the
\* append_output of the output callback and the update_task_status that
\* finalizes the task.
ExecQueueCall(id) ==
    /\ tasks_lock = Some(exec_thread(id))
    /\ \/ /\ workers[id].pc = "emit_running"
          /\ tasks' = append_output(tasks, id,
                          running_line(workers[id].cmd[1],
                              task_args(workers[id].task_type, workers[id].package_name,
                                        settings)),
                          settings.task_output_lines_limit)
          /\ workers' = [workers EXCEPT ![id].pc = "spawn"]
       \/ /\ workers[id].pc = "opened"
          /\ tasks' = append_output(tasks, id, "Terminal opened - waiting for completion...",
                                    settings.task_output_lines_limit)
          /\ workers' = [workers EXCEPT ![id].pc = "poll_cancel"]
       \/ /\ workers[id].pc = "canceled"
          /\ tasks' = append_output(tasks, id, "Task canceled by user.",
                                    settings.task_output_lines_limit)
          /\ workers' = [workers EXCEPT ![id] =
                Returned(@, Err("Task canceled by user"), @.child)]
       \/ /\ workers[id].pc \in {"set_completed", "set_canceled", "set_failed"}
          /\ tasks' = update_task_status(tasks, id,
                          final_status(unwrap(workers[id].result),
                                       workers[id].pc = "set_canceled"), now)
          /\ workers' = [workers EXCEPT ![id] = [IdleWorker EXCEPT !.pc = "done"]]
    /\ tasks_lock' = unlock(exec_thread(id))
    /\ UNCHANGED <<next_id, cancel_requested, settings, now, path_bins, calls, sched, ui,
                   cancel_calls, hist_vars>>

\* cmd.spawn(): the terminal opens, or the error is recorded and the loop
\* goes on with the candidates that remain.
ExecSpawn(id) ==
    /\ workers[id].pc = "spawn"
    /\ \E spawned \in BOOLEAN :
          workers' = [workers EXCEPT ![id] =
              IF spawned
              THEN [@ EXCEPT !.pc = "opened", !.child = "running"]
              ELSE [@ EXCEPT !.pc = "select",
                             !.last_error = "Failed to spawn " \o workers[id].cmd[1]
                                            \o ": " \o SpawnErrorText]]
    /\ UNCHANGED <<tasks, next_id, cancel_requested, now, sched, ui, cancel_calls,
                   env_vars, hist_vars>>

\* The match on the engine result: Err takes the cancel request before the
\* status is chosen.
ExecMatch(id) ==
    /\ workers[id].pc = "finalize"
    /\ IF unwrap(workers[id].result).ok
       THEN /\ workers' = [workers EXCEPT ![id].pc = "set_completed"]
            /\ UNCHANGED cancel_requested
       ELSE /\ cancel_requested' = take_cancel_request(cancel_requested, id).set
            /\ workers' = [workers EXCEPT ![id].pc =
                              IF take_cancel_request(cancel_requested, id).ret
                              THEN "set_canceled" ELSE "set_failed"]
    /\ UNCHANGED <<tasks, next_id, now, sched, ui, cancel_calls, env_vars, hist_vars>>

NextLock ==
    \/ \E t \in LockThreads : TasksLock(t)
    \/ UiQueueCall
    \/ RequestCancelInsert
    \/ SchedQueueCall
    \/ \E id \in Ids : ExecSelect(id)
    \/ \E id \in Ids : ExecQueueCall(id)
    \/ \E id \in Ids : ExecSpawn(id)
    \/ \E id \in Ids : EnginePollCancel(id)
    \/ \E id \in Ids : EnginePollWait(id)
    \/ \E id \in Ids : ChildExit(id)
    \/ \E id \in Ids : ExecMatch(id)

SpecLock == InitLock /\ [][NextLock]_vars

\* C18: in every reachable state a thread that is spawning, polling,
\* sleeping on or waiting for a child process does not hold the task-list
\* lock; whoever holds the lock is inside a queue function, which ends
\* without waiting for any child, so queue calls made while a task runs
\* are not held up by its subprocess.
C18_NoLockAcrossSubprocess ==
    /\ \A id \in Ids :
          workers[id].pc \in SubprocessPcs => tasks_lock # Some(exec_thread(id))
    /\ is_some(tasks_lock) => in_queue_call(unwrap(tasks_lock))

\* The interface thread holds the task-list lock while the child of one
\* task runs in the poll loop and another execution thread is at spawn.
C18_Witness ==
    /\ tasks_lock = Some("ui")
    /\ \E id \in Ids : workers[id].pc = "poll_wait" /\ workers[id].child = "running"
    /\ \E id \in Ids : workers[id].pc = "spawn"

\* Positions of an execution thread from the claim of its task up to the
\* update_task_status call that finalizes it.
C19_ExecutingPcs ==
    {"start", "select", "opened", "poll_cancel", "canceled", "poll_wait",
     "finalize", "set_canceled", "set_failed"}

\* C19: no step removes a Running task from the queue.  A task leaves the
\* queue only as a Queued task through cancel_queued_task, or as a
\* terminal task through clear_completed or the automatic clearing; so
\* the task of an execution thread is in the queue, Running, until the
\* thread finalizes it.
C19_RunningNeverRemoved ==
    /\ [](\A id \in Ids :
            workers[id].pc \in C19_ExecutingPcs
               => has_task(tasks, id) /\ status_of(tasks, id) = Running)
    /\ [][\A id \in Ids :
            (has_task(tasks, id) /\ ~has_task(tasks', id))
               => \/ status_of(tasks, id) = Queued /\ CancelQueuedTaskOf(id)
                  \/ is_terminal(status_of(tasks, id)) /\ ClearCompleted
                  \/ is_terminal(status_of(tasks, id)) /\ SchedAutoClear]_vars

\* An execution thread is about to finalize its Running task after the
\* other task has left the queue.
C19_Witness ==
    /\ Len(returned) = 2
    /\ Len(tasks) = 1
    /\ tasks[1].status = Running
    /\ workers[tasks[1].id].pc = "finalize"

\* ---------------------------------------------------- progress of a task
\* One Running task whose output receives lines that carry a percentage or
\* a "(current/total)" counter.
MaxProgressLines == 2

ProgressLines ==
    {"downloading... 45%", "(1/4) checking keys", "150%", "downloading 150%",
     "(5/2)", "(1/0)", "(0/0)"}

\* One append_output call with a line of ProgressLines.
AppendProgressLine ==
    /\ Len(appended) < MaxProgressLines
    /\ \E line \in ProgressLines :
          /\ tasks' = append_output(tasks, OutputTaskId, line,
                                    settings.task_output_lines_limit)
          /\ appended' = Append(appended, line)
    /\ UNCHANGED <<next_id, cancel_requested, now, sched, workers, ui,
                   cancel_calls, env_vars, claimed, returned, cancel_ack>>

NextProgress == AppendProgressLine

SpecProgress == InitOutput /\ [][NextProgress]_vars

\* C20: in every reachable state every task's progress is either absent
\* or a fraction p with 0 <= p <= 1, whatever lines were appended.
C20_ProgressInUnitInterval ==
    \A i \in 1..Len(tasks) :
       is_some(tasks[i].progress)
          => /\ unwrap(tasks[i].progress).kind = "finite"
             /\ 0 <= unwrap(tasks[i].progress).num
             /\ unwrap(tasks[i].progress).num <= unwrap(tasks[i].progress).den

\* Positions of the Queued tasks in the queue.
C21_QueuedAt(ts) == {i \in 1..Len(ts) : ts[i].status = Queued}

\* C21: claim_next_queued_task returns the Queued task at the lowest
\* queue position, or nothing, with no state change, when no task is
\* Queued; on success that task is Running with phase "Preparing",
\* started_at set and finished_at absent, and no other task's fields or
\* position change.
C21_ClaimTakesFirstQueued ==
    [][(sched.pc = "claim" /\ sched'.pc # "claim")
          => IF C21_QueuedAt(tasks) = {}
             THEN UNCHANGED <<tasks, claimed, workers>>
             ELSE \E k \in C21_QueuedAt(tasks) :
                     /\ \A j \in C21_QueuedAt(tasks) : k <= j
                     /\ claimed' = Append(claimed, tasks[k].id)
                     /\ workers'[tasks[k].id].pc = "start"
                     /\ workers'[tasks[k].id].task_type = tasks[k].task_type
                     /\ workers'[tasks[k].id].package_name = tasks[k].package_name
                     /\ Len(tasks') = Len(tasks)
                     /\ \A j \in 1..Len(tasks) : j # k => tasks'[j] = tasks[j]
                     /\ tasks'[k].status = Running
                     /\ tasks'[k].phase = Some("Preparing")
                     /\ tasks'[k].started_at_unix = Some(now)
                     /\ tasks'[k].finished_at_unix = None
                     /\ [tasks[k] EXCEPT !.status = Running,
                                         !.phase = Some("Preparing"),
                                         !.started_at_unix = Some(now),
                                         !.finished_at_unix = None] = tasks'[k]]_vars

\* The first of two Queued tasks has just been claimed: it is Running with
\* phase "Preparing" and its start time, the second is still Queued.
C21_Witness ==
    /\ claimed = <<0>>
    /\ Len(tasks) = 2
    /\ tasks[1].id = 0 /\ tasks[1].status = Running
    /\ tasks[1].phase = Some("Preparing")
    /\ is_some(tasks[1].started_at_unix)
    /\ tasks[2] = Task_new(1, tasks[2].task_type, tasks[2].package_name)
    /\ workers[0].pc = "start"
    /\ sched.pc = "auto_clear"

\* ------------------------------------------------- reordering the queue
\* A queue of MaxQueue tasks as the scheduler leaves it: the tasks were
\* enqueued in id order, the first ones have been claimed (and some of
\* them finalized), the rest are Queued.  The interface thread then
\* reorders and cancels Queued tasks.
MaxQueue == 4

ReorderIds == 0..(MaxQueue - 1)

\* The task with the given id after it was enqueued, claimed and, for a
\* terminal status, finalized.
claimed_task(id, status) ==
    update_task_status(
        claim_next_queued_task(<<Task_new(id, "Install", "foo")>>, 0).tasks,
        id, status, 0)[1]

InitReorder ==
    /\ \E claimed_count \in 0..MaxQueue :
          \E statuses \in [1..claimed_count -> {Running, Completed, Canceled}] :
             tasks = [i \in 1..MaxQueue |->
                         IF i <= claimed_count
                         THEN claimed_task(i - 1, statuses[i])
                         ELSE Task_new(i - 1, "Install", "foo")]
    /\ next_id = MaxQueue
    /\ cancel_requested = {}
    /\ settings = [DefaultSettings EXCEPT !.max_parallel_tasks = MaxQueue]
    /\ path_bins = {"xterm"}
    /\ now = 0
    /\ sched = [pc |-> "auto_clear"]
    /\ workers = [id \in Ids |-> IdleWorker]
    /\ ui = IdleUi
    /\ cancel_calls = 0
    /\ claimed = <<>>
    /\ returned = <<>>
    /\ cancel_ack = {}
    /\ appended = <<>>
    /\ tasks_lock = None
    /\ calls = [t \in LockThreads |-> NoCall]

\* A reordering call of the interface thread leaves the queue it returns.
ReorderApply(result) ==
    /\ tasks' = result.tasks
    /\ UNCHANGED <<next_id, cancel_requested, now, sched, workers, ui,
                   cancel_calls, env_vars, hist_vars>>

NextReorder ==
    \/ \E task_id \in ReorderIds : ReorderApply(move_queued_task_up(tasks, task_id))
    \/ \E task_id \in ReorderIds : ReorderApply(move_queued_task_down(tasks, task_id))
    \/ \E task_id \in ReorderIds : ReorderApply(run_queued_task_now(tasks, task_id))
    \/ \E task_id \in ReorderIds : ReorderApply(cancel_queued_task(tasks, task_id))

SpecReorder == InitReorder /\ [][NextReorder]_vars

\* ts with the tasks at positions i and k exchanged and nothing else
\* touched, stated position by position.
C22_Exchanged(ts, after, i, k) ==
    /\ Len(after) = Len(ts)
    /\ after[i] = ts[k]
    /\ after[k] = ts[i]
    /\ \A j \in 1..Len(ts) : j \notin {i, k} => after[j] = ts[j]

\* C22: move_queued_task_up on a Queued task swaps it with the nearest
\* Queued task at a lower position and returns true (move_queued_task_down:
\* the nearest at a higher position); without such a neighbour it returns
\* false and changes nothing.  Every other task keeps its position.
C22_MoveSwapsNearestQueued ==
    \A i \in C21_QueuedAt(tasks) :
       LET lower == {j \in C21_QueuedAt(tasks) : j < i}
           higher == {j \in C21_QueuedAt(tasks) : j > i}
           up == move_queued_task_up(tasks, tasks[i].id)
           down == move_queued_task_down(tasks, tasks[i].id)
       IN  /\ IF lower = {} THEN up = [tasks |-> tasks, ret |-> FALSE]
              ELSE /\ up.ret
                   /\ \E k \in lower : /\ \A j \in lower : j <= k
                                       /\ C22_Exchanged(tasks, up.tasks, i, k)
           /\ IF higher = {} THEN down = [tasks |-> tasks, ret |-> FALSE]
              ELSE /\ down.ret
                   /\ \E k \in higher : /\ \A j \in higher : k <= j
                                        /\ C22_Exchanged(tasks, down.tasks, i, k)

\* Three Queued tasks stand behind a Running one in an order that only
\* moves produce: the last enqueued task has been moved to the middle.
C22_Witness ==
    /\ Len(tasks) = 4
    /\ tasks[1].status = Running
    /\ tasks[2].id = 1 /\ tasks[3].id = 3 /\ tasks[4].id = 2
    /\ \A i \in 2..4 : tasks[i].status = Queued

\* The ids of a queue in queue order.
C23_IdsOf(ts) == [i \in 1..Len(ts) |-> ts[i].id]

\* C23: run_queued_task_now on a Queued task that is not the head-most
\* Queued task returns true and makes it the head-most Queued task, so the
\* next claim returns it; the other tasks keep their relative order and
\* their fields, and no task is lost or duplicated.  On the head-most
\* Queued task it returns false and changes nothing.
C23_RunNowMakesHead ==
    \A i \in C21_QueuedAt(tasks) :
       LET head == CHOOSE h \in C21_QueuedAt(tasks) : \A j \in C21_QueuedAt(tasks) : h <= j
           res == run_queued_task_now(tasks, tasks[i].id)
       IN  IF i = head THEN res = [tasks |-> tasks, ret |-> FALSE]
           ELSE /\ res.ret
                /\ Len(res.tasks) = Len(tasks)
                /\ res.tasks[head] = tasks[i]
                /\ \A j \in C21_QueuedAt(res.tasks) : head <= j
                /\ SelectSeq(res.tasks, LAMBDA t : t.id # tasks[i].id)
                      = SelectSeq(tasks, LAMBDA t : t.id # tasks[i].id)
                /\ unwrap(claim_next_queued_task(res.tasks, now).ret).id = tasks[i].id

\* Three Queued tasks stand behind a Canceled one and the last enqueued
\* task has been brought to their head, the other two keeping their order.
C23_Witness ==
    /\ Len(tasks) = 4
    /\ tasks[1].status = Canceled
    /\ C23_IdsOf(tasks) = <<0, 3, 1, 2>>
    /\ \A i \in 2..4 : tasks[i].status = Queued

\* C24: for any queue and any Queued task, when move_queued_task_up
\* returns true, move_queued_task_down called next returns true and
\* restores the original order of the tasks; and the same for down
\* followed by up.
C24_MoveUpDownInverse ==
    \A i \in C21_QueuedAt(tasks) :
       /\ move_queued_task_up(tasks, tasks[i].id).ret
             => move_queued_task_down(move_queued_task_up(tasks, tasks[i].id).tasks,
                                      tasks[i].id)
                   = [tasks |-> tasks, ret |-> TRUE]
       /\ move_queued_task_down(tasks, tasks[i].id).ret
             => move_queued_task_up(move_queued_task_down(tasks, tasks[i].id).tasks,
                                    tasks[i].id)
                   = [tasks |-> tasks, ret |-> TRUE]

\* Four Queued tasks, the second enqueued moved in front of the first:
\* moves up and down both succeed on the tasks in the middle.
C24_Witness ==
    /\ C23_IdsOf(tasks) = <<1, 0, 2, 3>>
    /\ \A i \in 1..4 : tasks[i].status = Queued
    /\ move_queued_task_up(tasks, 0).ret
    /\ move_queued_task_down(tasks, 0).ret

\* The tasks of a queue that are Queued or Running, in queue order.
C25_Live(ts) == SelectSeq(ts, LAMBDA t : t.status.tag \in {"Queued", "Running"})

\* C25: clear_completed removes exactly the Completed, Canceled and Failed
\* tasks and keeps every Queued and Running task, in the same relative
\* order and with its fields unchanged; the call touches nothing else, and
\* a task that is Running is still finalized by its execution thread: the
\* step that ends the thread leaves the task in the queue with a terminal
\* status.
C25_ClearRemovesTerminal ==
    /\ [](clear_completed(tasks) = C25_Live(tasks))
    /\ [][/\ ClearCompleted
             => /\ tasks' = C25_Live(tasks)
                /\ UNCHANGED <<workers, cancel_requested, next_id, sched>>
          /\ \A id \in Ids :
                (workers[id].pc \in C19_ExecutingPcs /\ workers'[id].pc = "done")
                   => /\ has_task(tasks', id)
                      /\ is_terminal(status_of(tasks', id))]_vars

\* The queue holds only the second task, Running and about to be
\* finalized; the first task was claimed, ended and was cleared (the clock
\* has not advanced, so the automatic clearing removed nothing).
C25_Witness ==
    /\ claimed = <<0, 1>>
    /\ now = 0
    /\ Len(tasks) = 1
    /\ tasks[1].id = 1
    /\ tasks[1].status = Running
    /\ workers[1].pc = "finalize"
    /\ ui.pc = "idle"

\* Retentions and clock readings (seconds after the current time) at
\* which the clearing is evaluated.
C26_Minutes == {0, 1, 2}
C26_Delays == {0, 59, 60, 61, 120, 121}

\* The queue without the tasks the claim says are removed: retention
\* m > 0, status terminal, finished_at strictly earlier than
\* clock - 60 * m, saturating at 0.
C26_Expected(ts, m, clock) ==
    SelectSeq(ts, LAMBDA t :
        ~(/\ m > 0
          /\ t.status.tag \in {"Completed", "Canceled", "Failed"}
          /\ is_some(t.finished_at_unix)
          /\ unwrap(t.finished_at_unix) < saturating_sub(clock, 60 * m)))

\* C26: auto_clear_by_settings with retention m removes a task if and
\* only if m > 0, the task is terminal and its finished_at is strictly
\* earlier than now - 60 * m (saturating at 0); with m = 0 it removes
\* nothing, and Queued and Running tasks are neither removed nor altered.
C26_AutoClearExact ==
    /\ [](\A m \in C26_Minutes : \A d \in C26_Delays :
            auto_clear_by_settings(tasks, m, now + d) = C26_Expected(tasks, m, now + d))
    /\ [][(sched.pc = "auto_clear" /\ sched'.pc # "auto_clear")
            => /\ tasks' = C26_Expected(tasks, settings.auto_clear_completed_tasks_minutes, now)
               /\ UNCHANGED <<workers, cancel_requested, next_id>>]_vars

\* With a retention of one minute and the clock 61 seconds on, the
\* scheduler has just run the clearing: the first task, which had ended at
\* time 0, is gone and the second, which ended at 61, is kept.
C26_Witness ==
    /\ settings.auto_clear_completed_tasks_minutes = 1
    /\ now = ClockStep
    /\ sched.pc = "check"
    /\ claimed = <<0, 1>>
    /\ Len(tasks) = 1
    /\ tasks[1].id = 1
    /\ is_terminal(tasks[1].status)
    /\ tasks[1].finished_at_unix = Some(ClockStep)

\* ------------------------------------------------- choice of a terminal
\* The program started with each terminal preference of the settings file
\* (automatic, a known terminal, a terminal outside the known five) on
\* hosts with different terminals installed.
InitEngine ==
    /\ tasks = <<>>
    /\ next_id = 0
    /\ cancel_requested = {}
    /\ \E preferred \in {"auto", "alacritty", "kitty"} :
          settings = [DefaultSettings EXCEPT !.terminal_preference = preferred]
    /\ path_bins \in {{}, {"konsole", "alacritty"}, {"gnome-terminal", "xterm", "kitty"}}
    /\ now = 0
    /\ sched = [pc |-> "auto_clear"]
    /\ workers = [id \in Ids |-> IdleWorker]
    /\ ui = IdleUi
    /\ cancel_calls = 0
    /\ claimed = <<>>
    /\ returned = <<>>
    /\ cancel_ack = {}
    /\ appended = <<>>
    /\ tasks_lock = None
    /\ calls = [t \in LockThreads |-> NoCall]

\* The interface enqueues tasks and requests cancellation; the scheduler
\* and the execution threads run them.
NextEngine ==
    \/ AddTask
    \/ RequestCancelCheck
    \/ RequestCancelInsert
    \/ RequestCancelAppend
    \/ Scheduler
    \/ \E id \in Ids : Worker(id)
    \/ \E id \in Ids : ChildExit(id)

SpecEngine == InitEngine /\ [][NextEngine]_vars

\* The candidate order the claim describes for a preference.
C27_Order(preferred) ==
    IF preferred = "auto"
    THEN <<"gnome-terminal", "konsole", "xterm", "xfce4-terminal", "alacritty">>
    ELSE <<preferred>>
         \o SelectSeq(<<"gnome-terminal", "konsole", "xterm", "xfce4-terminal", "alacritty">>,
                      LAMBDA t : t # preferred)

\* The candidates an execution thread has still to try.
C27_Remaining(w) ==
    IF w.pc = "start" THEN C27_Order(settings.terminal_preference) ELSE w.terminals

\* Positions of the candidates of a list that exist on the search path.
C27_OnPath(cands) == {i \in 1..Len(cands) : cands[i] \in path_bins}

\* C27: the engine tries the candidates in the order gnome-terminal,
\* konsole, xterm, xfce4-terminal, alacritty, with a preferred terminal
\* other than "auto" moved to the front and appearing once.  Each attempt
\* takes the first candidate not yet tried that exists on the search
\* path; the first attempt that spawns is the terminal launched, and from
\* then on no other candidate is tried, whatever the child's exit status.
C27_CandidateOrder ==
    /\ [](\A preferred \in {"auto", "kitty"} \cup KnownTerminals_set :
            terminal_candidates(preferred) = C27_Order(preferred))
    /\ [](\A id \in Ids :
            workers[id].pc \in {"select", "opened", "poll_cancel", "poll_wait", "canceled"}
               => \E n \in 0..Len(C27_Order(settings.terminal_preference)) :
                     workers[id].terminals
                        = SubSeq(C27_Order(settings.terminal_preference), n + 1,
                                 Len(C27_Order(settings.terminal_preference))))
    /\ [][\A id \in Ids :
            /\ (workers[id].pc \in {"start", "select"} /\ workers'[id] # workers[id])
                  => IF C27_OnPath(C27_Remaining(workers[id])) = {}
                     THEN /\ workers'[id].pc = "finalize"
                          /\ workers'[id].child = "none"
                          /\ ~unwrap(workers'[id].result).ok
                     ELSE \E k \in C27_OnPath(C27_Remaining(workers[id])) :
                             /\ \A j \in C27_OnPath(C27_Remaining(workers[id])) : k <= j
                             /\ workers'[id].terminals
                                   = SubSeq(C27_Remaining(workers[id]), k + 1,
                                            Len(C27_Remaining(workers[id])))
                             /\ \/ /\ workers'[id].pc = "opened"
                                   /\ workers'[id].child = "running"
                                   /\ workers'[id].cmd[1] = C27_Remaining(workers[id])[k]
                                \/ /\ workers'[id].pc = "select"
                                   /\ workers'[id].child = "none"
            /\ workers[id].pc \in {"opened", "poll_cancel", "poll_wait", "canceled"}
                  => /\ workers'[id].pc \notin {"start", "select"}
                     /\ workers'[id].pc \in {"opened", "poll_cancel", "poll_wait", "canceled"}
                           => workers'[id].cmd = workers[id].cmd]_vars

\* The preferred terminal alacritty has been launched although konsole,
\* which precedes it in the fixed order, is installed too; konsole is
\* still among the candidates left and will not be tried.
C27_Witness ==
    /\ settings.terminal_preference = "alacritty"
    /\ path_bins = {"konsole", "alacritty"}
    /\ workers[0].pc = "poll_wait"
    /\ workers[0].child = "exited_fail"
    /\ workers[0].cmd[1] = "alacritty"
    /\ workers[0].terminals = <<"gnome-terminal", "konsole", "xterm", "xfce4-terminal">>

\* The error recorded when the given candidate fails to spawn.
C28_SpawnError(terminal) == "Failed to spawn " \o terminal \o ": " \o SpawnErrorText

\* The last candidate, in the order of the preference, that exists on the
\* search path.
C28_LastOnPath ==
    C27_Order(settings.terminal_preference)[
        CHOOSE k \in C27_OnPath(C27_Order(settings.terminal_preference)) :
           \A j \in C27_OnPath(C27_Order(settings.terminal_preference)) : j <= k]

\* C28: when a candidate exists but fails to spawn, the engine goes on
\* with the next candidate.  The engine returns a spawn error only when
\* every candidate on the search path has failed to spawn, and the error
\* is then that of the last candidate tried; a task whose Failed reason
\* is a spawn error carries that error.
C28_SpawnErrorIsLast ==
    /\ [](\A i \in 1..Len(tasks) :
            (/\ tasks[i].status.tag = "Failed"
             /\ C16_BeginsWith(tasks[i].status.reason, "Failed to spawn"))
               => /\ C27_OnPath(C27_Order(settings.terminal_preference)) # {}
                  /\ tasks[i].status.reason = C28_SpawnError(C28_LastOnPath))
    /\ [][\A id \in Ids :
            /\ (/\ workers[id].pc \in {"start", "select"}
                /\ workers'[id] # workers[id]
                /\ workers'[id].pc = "select")
                  => /\ workers'[id].child = "none"
                     /\ workers'[id].terminal_found
                     /\ ~is_some(workers'[id].result)
                     /\ \E k \in C27_OnPath(C27_Remaining(workers[id])) :
                           /\ workers'[id].last_error
                                 = C28_SpawnError(C27_Remaining(workers[id])[k])
                           /\ workers'[id].terminals
                                 = SubSeq(C27_Remaining(workers[id]), k + 1,
                                          Len(C27_Remaining(workers[id])))
            /\ (/\ workers[id].pc \in {"start", "select"}
                /\ workers'[id].pc = "finalize"
                /\ C27_OnPath(C27_Order(settings.terminal_preference)) # {})
                  => /\ workers[id].pc = "select"
                     /\ C27_OnPath(workers[id].terminals) = {}
                     /\ workers'[id].result = Some(Err(C28_SpawnError(C28_LastOnPath)))
            /\ (/\ workers'[id].result # workers[id].result
                /\ is_some(workers'[id].result)
                /\ ~unwrap(workers'[id].result).ok
                /\ C16_BeginsWith(unwrap(workers'[id].result).err, "Failed to spawn"))
                  => /\ workers[id].pc = "select"
                     /\ C27_OnPath(workers[id].terminals) = {}]_vars

\* With konsole and alacritty installed and no preference, both failed to
\* spawn: the task is Failed with the error of alacritty, the last tried.
C28_Witness ==
    /\ settings.terminal_preference = "auto"
    /\ path_bins = {"konsole", "alacritty"}
    /\ Len(tasks) >= 1
    /\ tasks[1].status = Failed(C28_SpawnError("alacritty"))
    /\ Len(tasks[1].output) = 2

\* The output of the task with the given id.
C29_Output(ts, id) == ts[find_task(ts, id)].output

\* The first half of a poll-loop iteration and the end of a canceled run:
\* a pending request makes the engine kill the child and wait for it,
\* whether it still ran or had exited, emit "Task canceled by user." and
\* return the cancellation error; the engine emits no line after that.
C29_CancelFirst(id) ==
    /\ (workers[id].pc = "poll_cancel" /\ workers'[id].pc # "poll_cancel")
          => IF id \in cancel_requested
             THEN /\ workers'[id].pc = "canceled"
                  /\ workers'[id].child = "reaped"
                  /\ ~is_some(workers'[id].result)
             ELSE /\ workers'[id].pc = "poll_wait"
                  /\ workers'[id].child = workers[id].child
    /\ (workers[id].pc = "canceled" /\ workers'[id].pc # "canceled")
          => /\ workers'[id].pc = "finalize"
             /\ workers'[id].result = Some(Err("Task canceled by user"))
             /\ C29_Output(tasks', id)
                   = Append(C29_Output(tasks, id), "Task canceled by user.")
    /\ (workers[id].pc \in {"finalize", "set_canceled", "set_failed"}
          /\ workers'[id] # workers[id])
          => C29_Output(tasks', id) = C29_Output(tasks, id)

\* C29 (amended): in each iteration of the poll loop cancellation is
\* checked before the child's exit status.  Without a pending request the
\* engine asks for the exit status: an exited child yields success for
\* status 0 and the generic failure error for any other status, a child
\* that still runs makes the loop poll again; and when the query itself
\* fails the engine returns the wait error, whatever the child's state.
C29_PollLoopOrder ==
    [][\A id \in Ids :
          /\ C29_CancelFirst(id)
          /\ (workers[id].pc = "poll_wait" /\ workers'[id].pc # "poll_wait")
                => \/ /\ workers[id].child = "exited_ok"
                      /\ workers'[id].pc = "finalize"
                      /\ workers'[id].result = Some(Ok)
                   \/ /\ workers[id].child = "exited_fail"
                      /\ workers'[id].pc = "finalize"
                      /\ workers'[id].result
                            = Some(Err("Operation failed - check terminal output"))
                   \/ /\ workers[id].child = "running"
                      /\ workers'[id] = [workers[id] EXCEPT !.pc = "poll_cancel"]
                   \/ /\ workers'[id].pc = "finalize"
                      /\ workers'[id].result = Some(C17_WaitError)]_vars

\* C29 as stated: without a pending request every iteration ends in
\* success, in the generic failure error or in another poll.
C29_PollLoopThreeWays ==
    [][\A id \in Ids :
          /\ C29_CancelFirst(id)
          /\ (workers[id].pc = "poll_wait" /\ workers'[id].pc # "poll_wait")
                => \/ /\ workers[id].child = "exited_ok"
                      /\ workers'[id].pc = "finalize"
                      /\ workers'[id].result = Some(Ok)
                   \/ /\ workers[id].child = "exited_fail"
                      /\ workers'[id].pc = "finalize"
                      /\ workers'[id].result
                            = Some(Err("Operation failed - check terminal output"))
                   \/ /\ workers[id].child = "running"
                      /\ workers'[id] = [workers[id] EXCEPT !.pc = "poll_cancel"]]_vars

\* The engine has returned the cancellation error for the first task and
\* "Task canceled by user." is the last line of its output; the request
\* is still pending for the finalization.
C29_Witness ==
    /\ workers[0].pc = "finalize"
    /\ workers[0].result = Some(Err("Task canceled by user"))
    /\ workers[0].child = "reaped"
    /\ 0 \in cancel_requested
    /\ has_task(tasks, 0)
    /\ Len(C29_Output(tasks, 0)) > 0
    /\ C29_Output(tasks, 0)[Len(C29_Output(tasks, 0))] = "Task canceled by user."

\* C30: every child process the engine spawns, for every value of the
\* terminal preference, is invoked with the terminal's run-command form
\* followed by paru and the operation's arguments: the command of a
\* spawned child is the terminal, "--" or "-e", "paru", then the arguments.
C30_ChildRunsParu ==
    \A id \in Ids :
       workers[id].child \in {"running", "exited_ok", "exited_fail"}
          => /\ Len(workers[id].cmd) >= 3
             /\ workers[id].cmd[2] \in {"--", "-e"}
             /\ workers[id].cmd[3] = "paru"
             /\ SubSeq(workers[id].cmd, 4, Len(workers[id].cmd))
                   = task_args(workers[id].task_type, workers[id].package_name, settings)

\* The maximal run of digits and points that ends a text.
C32_NumericRun(before) ==
    SubSeq(before, rfind_non_numeric(before) + 1, Len(before))

\* The progress the percentage rule names for a line: v / 100 when the
\* run in front of the first '%' parses as v, nothing otherwise.
C32_Percentage(line) ==
    IF find_char(line, "%") = 0 THEN None
    ELSE ratio(parse_f64(C32_NumericRun(SubSeq(line, 1, find_char(line, "%") - 1))),
               Some(F64(100, 1)))

\* C32: after append_output of a line whose first '%' is preceded by a
\* maximal run of digits and points that parses as v, the task's progress
\* is v / 100, also when the run starts at the first character of the
\* line, and also when the line carries a "(current/total)" counter.
C32_PercentageParsed ==
    (Len(appended) > 0 /\ is_some(C32_Percentage(appended[Len(appended)])))
       => tasks[1].progress = C32_Percentage(appended[Len(appended)])

\* The line a step appended to the task at position i.
C33_Line(i) == tasks'[i].output[Len(tasks'[i].output)]

\* C33: an append_output call whose line matches neither progress
\* heuristic leaves the task's progress unchanged, one whose line matches
\* no phase phrase leaves its phase unchanged, neither field is ever reset
\* to absent, and the call changes neither the task's status or
\* timestamps nor any other task.
C33_AppendKeepsTheRest ==
    [][\A i \in 1..Len(tasks) :
          (Len(tasks') = Len(tasks) /\ tasks'[i].output # tasks[i].output)
             => /\ (~is_some(parse_progress(C33_Line(i)))
                      => tasks'[i].progress = tasks[i].progress)
                /\ (~is_some(parse_phase(C33_Line(i)))
                      => tasks'[i].phase = tasks[i].phase)
                /\ (is_some(tasks[i].progress) => is_some(tasks'[i].progress))
                /\ (is_some(tasks[i].phase) => is_some(tasks'[i].phase))
                /\ tasks'[i].id = tasks[i].id
                /\ tasks'[i].status = tasks[i].status
                /\ tasks'[i].started_at_unix = tasks[i].started_at_unix
                /\ tasks'[i].finished_at_unix = tasks[i].finished_at_unix
                /\ \A j \in 1..Len(tasks) : j # i => tasks'[j] = tasks[j]]_vars

\* A task that shows a progress and a phase although the last line it
\* received names neither.
C33_Witness ==
    /\ Len(appended) = MaxProgressLines
    /\ ~is_some(parse_progress(appended[Len(appended)]))
    /\ ~is_some(parse_phase(appended[Len(appended)]))
    /\ is_some(tasks[1].progress)
    /\ tasks[1].phase = Some("Downloading")

\* C34: in every reachable state every id in the pending-cancellation set
\* belongs to a task that is in the queue and Running: no id of a terminal
\* or removed task remains in the set.
C34_PendingCancelIsRunning ==
    \A id \in cancel_requested :
       has_task(tasks, id) /\ status_of(tasks, id) = Running

\* The task of the next state that carries the id of the task at position i.
C35_After(i) == tasks'[find_task(tasks', tasks[i].id)]

\* C35: once a task has reached a terminal status, no step changes its
\* output buffer, its progress or its phase while it stays in the queue.
C35_TerminalTaskIsFrozen ==
    [][\A i \in 1..Len(tasks) :
          (is_terminal(tasks[i].status) /\ has_task(tasks', tasks[i].id))
             => /\ C35_After(i).output = tasks[i].output
                /\ C35_After(i).progress = tasks[i].progress
                /\ C35_After(i).phase = tasks[i].phase]_vars

\* C36: a task that is finalized as Canceled has not triggered the "Parut
\* Task Failed" notification: its execution thread sent no such
\* notification before it set the status.
C36_CanceledSendsNoFailure ==
    [][\A id \in Ids :
          (/\ has_task(tasks, id) /\ has_task(tasks', id)
           /\ status_of(tasks, id) # Canceled
           /\ status_of(tasks', id) = Canceled)
             => workers[id].notification # Some("Parut Task Failed")]_vars

\* ------------------------------------------- the cap changed while running
\* The preferences page: the "Max Parallel Tasks" row offers 1 to 4 and its
\* handler stores the selected value with settings::update.  Values above
\* MaxTasks behave like MaxTasks here.
ParallelChoices == {1, 2}

SetMaxParallelTasks ==
    /\ ui.pc = "idle"
    /\ \E value \in ParallelChoices :
          /\ value # settings.max_parallel_tasks
          /\ settings' = [settings EXCEPT !.max_parallel_tasks = value]
    /\ UNCHANGED <<tasks, next_id, cancel_requested, now, sched, workers, ui,
                   cancel_calls, path_bins, tasks_lock, calls, hist_vars>>

NextCap ==
    \/ AddTask
    \/ SetMaxParallelTasks
    \/ RequestCancelCheck
    \/ RequestCancelInsert
    \/ RequestCancelAppend
    \/ Scheduler
    \/ \E id \in Ids : Worker(id)
    \/ \E id \in Ids : ChildExit(id)

SpecCap == Init /\ [][NextCap]_vars

\* The cap in force: the configured value, 1 when it is 0.
C31_Cap == IF settings.max_parallel_tasks = 0 THEN 1 ELSE settings.max_parallel_tasks

Lock(mutex) == <<"lock", mutex>>
Unlock(mutex) == <<"unlock", mutex>>

notify_update == <<Lock("update_callback"), Unlock("update_callback")>>
settings_get == <<Lock("settings"), Unlock("settings")>>

add_task_locks ==
    <<Lock("next_id"), Lock("tasks")>> \o notify_update
       \o <<Unlock("tasks"), Unlock("next_id")>>
append_output_locks ==
    <<Lock("tasks")>> \o settings_get \o notify_update \o <<Unlock("tasks")>>

\* Variant of lock_program in which clear_completed takes the callback
\* mutex before the task list.
lock_program_inverted(op) ==
    IF op = "clear_completed"
    THEN <<Lock("update_callback"), Lock("tasks"), Unlock("tasks"),
           Unlock("update_callback")>>
    ELSE IF op = "add_task" THEN add_task_locks
    ELSE <<Lock("tasks"), Unlock("tasks")>>

lock_program(op) ==
    CASE op = "add_task" -> add_task_locks
      [] op \in {"get_tasks", "running_count"} -> <<Lock("tasks"), Unlock("tasks")>>
      [] op \in {"update_task_status", "clear_completed", "cancel_queued_task"} ->
            <<Lock("tasks")>> \o notify_update \o <<Unlock("tasks")>>
      [] op = "append_output" -> append_output_locks
      [] op \in {"claim_next_queued_task", "move_queued_task_up",
                 "move_queued_task_down", "run_queued_task_now"} ->
            <<Lock("tasks"), Unlock("tasks")>> \o notify_update
      [] op = "auto_clear_by_settings" ->
            settings_get \o <<Lock("tasks"), Unlock("tasks")>> \o notify_update
      [] op = "request_cancel" ->
            <<Lock("tasks"), Unlock("tasks"),
              Lock("cancel_requested"), Unlock("cancel_requested")>>
               \o append_output_locks
      [] op \in {"is_cancel_requested", "take_cancel_request"} ->
            <<Lock("cancel_requested"), Unlock("cancel_requested")>>
      [] op = "retry_failed_task" ->
            <<Lock("tasks"), Unlock("tasks")>> \o add_task_locks
      [] op = "settings_update" -> settings_get

\* The queue functions each thread calls.
ThreadOps(t) ==
    IF t = "ui"
    THEN {"add_task", "get_tasks", "clear_completed", "cancel_queued_task",
          "move_queued_task_up", "move_queued_task_down", "run_queued_task_now",
          "request_cancel", "retry_failed_task", "settings_update"}
    ELSE IF t = "sched"
    THEN {"auto_clear_by_settings", "running_count", "claim_next_queued_task"}
    ELSE {"append_output", "is_cancel_requested", "take_cancel_request",
          "update_task_status"}

\* The mutexes whose guard a call holds after its first pos steps.
guards_after(program, pos) ==
    {program[i][2] : i \in {i \in 1..pos :
        /\ program[i][1] = "lock"
        /\ \A j \in (i + 1)..pos : program[j] # Unlock(program[i][2])}}

held(t) ==
    IF calls[t].op = "none" THEN {}
    ELSE guards_after(lock_program(calls[t].op), calls[t].pos)

\* The thread enters a queue function.
MutexCall(t) ==
    /\ calls[t].op = "none"
    /\ \E op \in ThreadOps(t) : calls' = [calls EXCEPT ![t] = [op |-> op, pos |-> 0]]
    /\ UNCHANGED <<tasks, next_id, cancel_requested, settings, now, path_bins,
                   sched, workers, ui, cancel_calls, tasks_lock, hist_vars>>

\* The next lock() of the call, which goes on once no thread holds the
\* mutex, or the next drop of a guard; after the last one the call returns.
MutexStep(t) ==
    /\ calls[t].op # "none"
    /\ IF calls[t].pos = Len(lock_program(calls[t].op))
       THEN calls' = [calls EXCEPT ![t] = NoCall]
       ELSE /\ lock_program(calls[t].op)[calls[t].pos + 1][1] = "lock"
                => \A u \in LockThreads :
                      lock_program(calls[t].op)[calls[t].pos + 1][2] \notin held(u)
            /\ calls' = [calls EXCEPT ![t].pos = @ + 1]
    /\ UNCHANGED <<tasks, next_id, cancel_requested, settings, now, path_bins,
                   sched, workers, ui, cancel_calls, tasks_lock, hist_vars>>

NextMutex ==
    \/ \E t \in LockThreads : MutexCall(t)
    \/ \E t \in LockThreads : MutexStep(t)

SpecMutex == Init /\ [][NextMutex]_vars

\* The order in which the mutexes are taken.
C37_Rank(mutex) ==
    CASE mutex = "next_id" -> 1
      [] mutex = "tasks" -> 2
      [] mutex = "settings" -> 3
      [] mutex = "update_callback" -> 4
      [] mutex = "cancel_requested" -> 5

\* The event a thread inside a call is at, <<"return", "">> after the last.
C37_NextEvent(t) ==
    IF calls[t].pos = Len(lock_program(calls[t].op)) THEN <<"return", "">>
    ELSE lock_program(calls[t].op)[calls[t].pos + 1]

\* The thread is inside a call and its next step can be taken.
C37_CanStep(t) ==
    /\ calls[t].op # "none"
    /\ C37_NextEvent(t)[1] = "lock"
          => \A u \in LockThreads : C37_NextEvent(t)[2] \notin held(u)

\* C37: no interleaving of the queue calls deadlocks: whenever some thread
\* is inside a call, some thread inside a call can take its next step;
\* every lock() is on a mutex that comes later in one fixed order (id
\* counter, task list, settings, update callback, pending-cancellation
\* set) than every mutex the thread holds; and a call that returns holds
\* no mutex.
C37_NoDeadlock ==
    /\ (\E t \in LockThreads : calls[t].op # "none")
          => \E t \in LockThreads : C37_CanStep(t)
    /\ \A t \in LockThreads :
          calls[t].op # "none"
             => /\ C37_NextEvent(t)[1] = "lock"
                      => \A m \in held(t) : C37_Rank(m) < C37_Rank(C37_NextEvent(t)[2])
                /\ C37_NextEvent(t)[1] = "return" => held(t) = {}

\* add_task on the interface thread holds the id counter and the task
\* list and waits for the callback mutex, which the scheduler holds in the
\* notify_update of a claim while an execution thread waits for the task
\* list.
C37_Witness ==
    /\ calls["ui"] = [op |-> "add_task", pos |-> 2]
    /\ calls["sched"] = [op |-> "claim_next_queued_task", pos |-> 3]
    /\ calls[exec_thread(0)] = [op |-> "append_output", pos |-> 0]
    /\ calls[exec_thread(1)].op = "take_cancel_request"
    /\ held(exec_thread(1)) = {"cancel_requested"}

\* ------------------------------------------------ fair scheduler and threads
\* The scheduler loop and every execution thread keep being scheduled, and
\* every child process exits after a while.
SpecFair ==
    /\ Init
    /\ [][NextLive]_vars
    /\ WF_vars(Scheduler)
    /\ \A id \in Ids : WF_vars(Worker(id))
    /\ \A id \in Ids : WF_vars(ChildExit(id))

\* The task is in the queue and Queued.
C38_Queued(id) == has_task(tasks, id) /\ status_of(tasks, id) = Queued

\* The task was claimed by the scheduler.
C38_Claimed(id) == \E k \in 1..Len(claimed) : claimed[k] = id

\* C38: with a fair scheduler, fair execution threads and children that
\* exit, every Queued task is eventually claimed and eventually reaches a
\* terminal status, unless it is removed from the queue while Queued.
C38_QueuedTaskFinishes ==
    \A id \in Ids :
       /\ C38_Queued(id) ~> (C38_Claimed(id) \/ ~has_task(tasks, id))
       /\ C38_Queued(id) ~> (reached_terminal(id) \/ ~has_task(tasks, id))

\* With the cap at one, the task enqueued second was moved ahead, claimed
\* first, and both tasks have finished.
C38_Witness ==
    /\ effective_cap = 1
    /\ claimed = <<1, 0>>
    /\ reached_terminal(0)
    /\ reached_terminal(1)
====
